---- MODULE Spec2Model ----
(***************************************************************************)
(* HoldIQ backend: the 13F position-delta build (build_positions_delta.py) *)
(* over the positions_13f table that parse_13f.py fills.                   *)
(*                                                                         *)
(* Conventions of the model                                                *)
(*  - TEXT values that the code orders (manager_cik, report_period) are    *)
(*    sequences of digits, compared as SQLite's BINARY collation and       *)
(*    Python's str comparison do: lexicographically.                       *)
(*  - A nullable REAL column holds <<>> (NULL) or <<n>>.                    *)
(*  - weight_pct is the exact rational <<num, den>> in lowest terms; the    *)
(*    rounding of the double division is not modelled.                     *)
(*  - positions_13f_delta has no uniqueness constraint besides its         *)
(*    AUTOINCREMENT id, so it is a bag of rows: the id is the row's        *)
(*    multiplicity slot and is not a field of the row.                     *)
(*  - The state holds what is committed in the database (what another      *)
(*    connection reads) plus the locals of the running script.             *)
(***************************************************************************)
EXTENDS Integers, Sequences, FiniteSets, Bags, TLC

VARIABLES
    positions_13f,          \* table positions_13f: set of rows, one per (manager_cik, report_period, cusip)
    positions_13f_delta,    \* table positions_13f_delta as committed: bag of delta rows
    pc,                     \* position of build_positions_delta.main: idle, loop, done, crashed
    manager_order,          \* by_manager's keys in insertion order
    by_manager,             \* by_manager: manager_cik -> list of report_period
    mgr_idx,                \* index of the outer loop in manager_order
    i,                      \* the inner loop's i (0 before the first iteration for a manager)
    delta_rows,             \* delta_rows of the pair processed last
    cur_pair,               \* <<manager_cik, prev_rp, curr_rp>> of the pair processed last, or <<>>
    total_inserted,         \* total_inserted
    runs,                   \* number of runs of the build started so far
    filings,                \* number of filings parsed so far
    before,                 \* history: tables as they were when the running build started
    written,                \* history: bag of the rows the running build has inserted
    processed,              \* history: the pairs the running build has committed, in order
    failed,                 \* history: the pair at which the running build raised, or <<>>
    prev_pos,               \* compute_delta_row's argument prev_pos
    curr_pos,               \* compute_delta_row's argument curr_pos
    row_args,               \* compute_delta_row's arguments manager_cik, report_period, cusip
    delta_row,              \* compute_delta_row's result
    row_pc,                 \* compute_delta_row: call, returned, raised
    pair_args,              \* one pair iteration on its own: <<manager_cik, prev_rp, curr_rp>>
    pair_prev_positions,    \* main's prev_positions (line 167) in that iteration
    pair_curr_positions,    \* main's curr_positions (line 168) in that iteration
    pair_rows,              \* the delta_rows list of that iteration (lines 171-177)
    pair_pc,                \* the pair iteration: off, call, done
    last_filing,            \* history: manager_cik, period and rows of the filing parsed last
    read_args,              \* generate_ai_brief.fetch_manager_snapshot's arguments cik, report_period
    deltas,                 \* its list deltas_rows (lines 73-99)
    read_pc,                \* the delta read: off, call, done
    snap_args,              \* build_manager_snapshot's arguments manager_cik, report_period
    snapshot,               \* build_manager_snapshot's result
    snap_pc,                \* build_manager_snapshot: off, call, done
    http_args,              \* http_post_json's arguments retries, offline, require_network, and _https_supported()
    attempt,                \* http_post_json's loop variable: the index of the next attempt
    last_err,               \* http_post_json's last_err: <<>> (None) or <<kind of the exception caught last>>
    http_attempts,          \* history: number of requests http_post_json has opened
    http_pc,                \* http_post_json: off, call, loop, returned_empty, returned_response, raised
    filings_table,          \* table filings as committed: set of rows, one per uniq (and one per id)
    filings_seq,            \* sqlite_sequence of filings: the largest id AUTOINCREMENT has handed out
    last_by_uniq,           \* history: for every uniq key ingested, the mapped row ingested last for it
    ingest_log,             \* history: the ingest run last, the table before it, whether it repeats the CSV before it
    parse_queue,            \* table parse_queue as committed: set of items, one per accessionNo
    filings_parsed,         \* table filings_parsed as committed: set of rows, one per accessionNo
    queue_log,              \* history: the run of parse_13f.main made last, its item and the tables before it
    subscribers,            \* table subscribers as committed: set of rows, one per id
    subscribers_seq,        \* sqlite_sequence of subscribers: the largest id handed out
    sub_log,                \* history: the call of manage_subscribers made last, its result and the table before it
    ckpt_file,              \* the file <out-prefix>.checkpoint.json: absent, unreadable, or a Checkpoint
    outputs,                \* the rows appended to <out-prefix>.jsonl and .csv, counted per query
    scrape_pc,              \* the scraper's main: off, slice, page, fetched, written, done, crashed
    hash_seed,              \* the hash seed of the running process (str hashes differ between processes)
    slices_left,            \* the slices the for loop has not finished, the current one first
    qhash,                  \* main's qhash
    from_idx,               \* main's from_idx
    total_written,          \* main's total_written
    page_hits,              \* len(hits) of the page fetched last
    scrape_runs,            \* number of runs of the scraper started so far
    slice_start,            \* history: the checkpoint file the current slice found, and where it started
    in_flight,              \* pairs processed in any order: the pairs whose delta_rows are computed and not yet inserted
    inserted                \* pairs processed in any order: the pairs whose delta_rows are committed, in commit order

buildVars == <<pc, manager_order, by_manager, mgr_idx, i, delta_rows, cur_pair,
               total_inserted, runs, before, written, processed, failed>>
tableVars == <<positions_13f, positions_13f_delta, filings>>
rowVars == <<row_args, prev_pos, curr_pos, delta_row, row_pc>>
pairVars == <<pair_args, pair_prev_positions, pair_curr_positions, pair_rows, pair_pc>>
parseVars == <<last_filing>>
readVars == <<read_args, deltas, read_pc>>
snapVars == <<snap_args, snapshot, snap_pc>>
httpVars == <<http_args, attempt, last_err, http_attempts, http_pc>>
ingestVars == <<filings_table, filings_seq, last_by_uniq, ingest_log>>
queueVars == <<parse_queue, filings_parsed, queue_log>>
subVars == <<subscribers, subscribers_seq, sub_log>>
scrapeVars == <<ckpt_file, outputs, scrape_pc, hash_seed, slices_left, qhash, from_idx,
                total_written, page_hits, scrape_runs, slice_start>>
orderVars == <<in_flight, inserted>>
svcVars == <<httpVars, ingestVars, queueVars, subVars, scrapeVars, orderVars>>
coreVars == <<tableVars, buildVars, rowVars, pairVars, parseVars, readVars, snapVars>>
httpRest == <<coreVars, ingestVars, queueVars, subVars, scrapeVars, orderVars>>
ingestRest == <<coreVars, httpVars, queueVars, subVars, scrapeVars, orderVars>>
queueOther == <<positions_13f_delta, buildVars, rowVars, pairVars, parseVars, readVars, snapVars,
                httpVars, subVars, scrapeVars, orderVars>>
queueCore == <<queueOther, positions_13f, filings>>
subRest == <<coreVars, httpVars, ingestVars, queueVars, scrapeVars, orderVars>>
scrapeRest == <<coreVars, httpVars, ingestVars, queueVars, subVars, orderVars>>
orderRest == <<filings, buildVars, rowVars, pairVars, parseVars, readVars, snapVars,
               httpVars, ingestVars, queueVars, subVars, scrapeVars>>
extVars == <<pairVars, parseVars, readVars, snapVars, svcVars>>
vars == <<tableVars, buildVars, rowVars, extVars>>

(***************************************************************************)
(* Bounds                                                                  *)
(***************************************************************************)
MaxRuns == 2
MaxFilings == 3
MaxRows == 2
MaxShares == 2
MaxValue == 2
MaxHoldings == 51

Managers == {<<1>>, <<2>>}
\* "1" < "10" < "9" as strings, 1 < 9 < 10 as numbers
Periods == {<<1>>, <<1, 0>>, <<9>>}
Cusips == {"AAA", "BBB"}
Issuers == {"Acme", "Apex"}

(***************************************************************************)
(* Values                                                                  *)
(***************************************************************************)
None == [isNone |-> TRUE]
NULL == <<>>

\* Python's `x or 0.0` on a fetched REAL column
OrZero(x) == IF x = NULL THEN 0 ELSE x[1]

RECURSIVE GCD(_, _)
GCD(a, b) == IF b = 0 THEN a ELSE GCD(b, a % b)

Abs(n) == IF n < 0 THEN -n ELSE n

\* the rational n/d (d > 0) in lowest terms
Rat(n, d) ==
    LET g == GCD(Abs(n), d)
    IN  IF n = 0 THEN <<0, 1>> ELSE <<n \div g, d \div g>>

RatSub(a, b) == Rat(a[1] * b[2] - b[1] * a[2], a[2] * b[2])

RECURSIVE LexLess(_, _)
LexLess(s, t) ==
    IF s = <<>> THEN t # <<>>
    ELSE IF t = <<>> THEN FALSE
    ELSE IF Head(s) # Head(t) THEN Head(s) < Head(t)
    ELSE LexLess(Tail(s), Tail(t))

RECURSIVE Sorted(_)
Sorted(S) ==
    IF S = {} THEN <<>>
    ELSE LET m == CHOOSE x \in S : \A y \in S \ {x} : LexLess(x, y)
         IN  <<m>> \o Sorted(S \ {m})

Range(s) == {s[k] : k \in DOMAIN s}

SeqToBag(s) == [r \in Range(s) |-> Cardinality({k \in DOMAIN s : s[k] = r})]

RECURSIVE SumValues(_)
SumValues(rows) ==
    IF rows = {} THEN 0
    ELSE LET r == CHOOSE x \in rows : TRUE
         IN  OrZero(r.value_usd) + SumValues(rows \ {r})

(***************************************************************************)
(* fetch_quarter_positions                                                 *)
(***************************************************************************)
\* a plausible slip: rows whose value_usd is NULL are filtered out of the snapshot
QuarterRows_value_not_null(tbl, manager_cik, report_period) ==
    {r \in tbl : r.manager_cik = manager_cik /\ r.report_period = report_period
                 /\ r.value_usd # NULL}

\* a plausible slip: the WHERE clause misses the report_period
QuarterRows_any_period(tbl, manager_cik, report_period) ==
    {r \in tbl : r.manager_cik = manager_cik}

\* SELECT cusip, issuer, shares, value_usd FROM positions_13f WHERE manager_cik = ? AND report_period = ?
QuarterRows(tbl, manager_cik, report_period) ==
    {r \in tbl : r.manager_cik = manager_cik /\ r.report_period = report_period}

\* a plausible slip: the total is taken over all quarters of the manager
fetch_quarter_positions_manager_total(tbl, manager_cik, report_period) ==
    LET rows == QuarterRows(tbl, manager_cik, report_period)
        summed == SumValues({r \in tbl : r.manager_cik = manager_cik})
        total_value == IF summed <= 0 THEN 0 ELSE summed
        RowOf(c) == CHOOSE r \in rows : r.cusip = c
    IN  [c \in {r.cusip : r \in rows} |->
            [cusip |-> c,
             companyName |-> RowOf(c).issuer,
             shares |-> OrZero(RowOf(c).shares),
             value_usd |-> OrZero(RowOf(c).value_usd),
             weight_pct |-> IF total_value > 0
                            THEN Rat(OrZero(RowOf(c).value_usd) * 100, total_value)
                            ELSE Rat(0, 1)]]

\* a plausible slip: the weight is left as a fraction, not a percentage
fetch_quarter_positions_fraction(tbl, manager_cik, report_period) ==
    LET rows == QuarterRows(tbl, manager_cik, report_period)
        summed == SumValues(rows)
        total_value == IF summed <= 0 THEN 0 ELSE summed
        RowOf(c) == CHOOSE r \in rows : r.cusip = c
    IN  [c \in {r.cusip : r \in rows} |->
            [cusip |-> c,
             companyName |-> RowOf(c).issuer,
             shares |-> OrZero(RowOf(c).shares),
             value_usd |-> OrZero(RowOf(c).value_usd),
             weight_pct |-> IF total_value > 0
                            THEN Rat(OrZero(RowOf(c).value_usd), total_value)
                            ELSE Rat(0, 1)]]

\* the dict cusip -> position, each with its weight_pct within the quarter
fetch_quarter_positions(tbl, manager_cik, report_period) ==
    LET rows == QuarterRows(tbl, manager_cik, report_period)
        summed == SumValues(rows)
        total_value == IF summed <= 0 THEN 0 ELSE summed
        RowOf(c) == CHOOSE r \in rows : r.cusip = c
    IN  [c \in {r.cusip : r \in rows} |->
            LET value_usd == OrZero(RowOf(c).value_usd)
                shares == OrZero(RowOf(c).shares)
            IN  [cusip |-> c,
                 companyName |-> RowOf(c).issuer,
                 shares |-> shares,
                 value_usd |-> value_usd,
                 weight_pct |-> IF total_value > 0
                                THEN Rat(value_usd * 100, total_value)
                                ELSE Rat(0, 1)]]

\* dict.get(key): the entry, or None
Get(d, key) == IF key \in DOMAIN d THEN d[key] ELSE None

\* truth value of a position dict or None (a position dict is never empty)
Truthy(pos) == pos # None

(***************************************************************************)
(* compute_delta_row                                                       *)
(***************************************************************************)
\* a plausible slip: new/closed decided from zero quantities instead of absence
delta_type_by_zero(prev, curr, delta_shares, delta_value) ==
    LET old_zero == prev = None \/ (prev.shares = 0 /\ prev.value_usd = 0)
        new_zero == curr = None \/ (curr.shares = 0 /\ curr.value_usd = 0)
    IN  IF old_zero /\ ~new_zero THEN "new"
        ELSE IF ~old_zero /\ new_zero THEN "closed"
        ELSE IF delta_shares > 0 /\ delta_value >= 0 THEN "increase"
        ELSE IF delta_shares < 0 /\ delta_value <= 0 THEN "decrease"
        ELSE IF delta_value > 0 THEN "increase" ELSE "decrease"

\* a plausible slip: strict comparisons on the value in the agreeing branches
delta_type_strict(prev, curr, delta_shares, delta_value) ==
    IF prev = None /\ curr # None THEN "new"
    ELSE IF prev # None /\ curr = None THEN "closed"
    ELSE IF delta_shares > 0 /\ delta_value > 0 THEN "increase"
    ELSE IF delta_shares < 0 /\ delta_value < 0 THEN "decrease"
    ELSE IF delta_value > 0 THEN "increase" ELSE "decrease"

\* a plausible slip: the mixed branch tests delta_value >= 0
delta_type_tie_up(prev, curr, delta_shares, delta_value) ==
    IF prev = None /\ curr # None THEN "new"
    ELSE IF prev # None /\ curr = None THEN "closed"
    ELSE IF delta_shares > 0 /\ delta_value >= 0 THEN "increase"
    ELSE IF delta_shares < 0 /\ delta_value <= 0 THEN "decrease"
    ELSE IF delta_value >= 0 THEN "increase" ELSE "decrease"

\* a plausible slip: a fifth label for a position held at the same quantities
delta_type_unchanged(prev, curr, delta_shares, delta_value) ==
    IF prev = None /\ curr # None THEN "new"
    ELSE IF prev # None /\ curr = None THEN "closed"
    ELSE IF delta_shares = 0 /\ delta_value = 0 THEN "unchanged"
    ELSE IF delta_shares > 0 /\ delta_value >= 0 THEN "increase"
    ELSE IF delta_shares < 0 /\ delta_value <= 0 THEN "decrease"
    ELSE IF delta_value > 0 THEN "increase" ELSE "decrease"

\* the classification of lines 78-91
delta_type(prev, curr, delta_shares, delta_value) ==
    IF prev = None /\ curr # None THEN "new"
    ELSE IF prev # None /\ curr = None THEN "closed"
    ELSE IF delta_shares > 0 /\ delta_value >= 0 THEN "increase"
    ELSE IF delta_shares < 0 /\ delta_value <= 0 THEN "decrease"
    ELSE IF delta_value > 0 THEN "increase" ELSE "decrease"

\* the guard of line 60: raise ValueError
compute_delta_row_raises(prev, curr) == prev = None /\ curr = None

\* a plausible slip: an absent current side keeps the previous quantities
compute_delta_row_carry(manager_cik, report_period, cusip, prev, curr) ==
    LET old_shares == IF Truthy(prev) THEN prev.shares ELSE 0
        new_shares == IF Truthy(curr) THEN curr.shares ELSE old_shares
        old_value == IF Truthy(prev) THEN prev.value_usd ELSE 0
        new_value == IF Truthy(curr) THEN curr.value_usd ELSE old_value
        old_weight == IF Truthy(prev) THEN prev.weight_pct ELSE Rat(0, 1)
        new_weight == IF Truthy(curr) THEN curr.weight_pct ELSE old_weight
    IN  [cik |-> manager_cik,
         reportPeriod |-> report_period,
         ticker |-> cusip,
         companyName |-> (IF Truthy(curr) THEN curr ELSE prev).companyName,
         delta_type |-> delta_type(prev, curr, new_shares - old_shares, new_value - old_value),
         old_shares |-> old_shares,
         new_shares |-> new_shares,
         delta_shares |-> new_shares - old_shares,
         old_value_usd |-> old_value,
         new_value_usd |-> new_value,
         delta_value_usd |-> new_value - old_value,
         old_weight_pct |-> old_weight,
         new_weight_pct |-> new_weight,
         delta_weight_pct |-> RatSub(new_weight, old_weight)]

\* a plausible slip: the previous side's name takes precedence
compute_delta_row_prev_name(manager_cik, report_period, cusip, prev, curr) ==
    LET companyName == (IF Truthy(prev) THEN prev ELSE curr).companyName
        old_shares == IF Truthy(prev) THEN prev.shares ELSE 0
        new_shares == IF Truthy(curr) THEN curr.shares ELSE 0
        delta_shares == new_shares - old_shares
        old_value == IF Truthy(prev) THEN prev.value_usd ELSE 0
        new_value == IF Truthy(curr) THEN curr.value_usd ELSE 0
        delta_value == new_value - old_value
        old_weight == IF Truthy(prev) THEN prev.weight_pct ELSE Rat(0, 1)
        new_weight == IF Truthy(curr) THEN curr.weight_pct ELSE Rat(0, 1)
        delta_weight == RatSub(new_weight, old_weight)
    IN  [cik |-> manager_cik,
         reportPeriod |-> report_period,
         ticker |-> cusip,
         companyName |-> companyName,
         delta_type |-> delta_type(prev, curr, delta_shares, delta_value),
         old_shares |-> old_shares,
         new_shares |-> new_shares,
         delta_shares |-> delta_shares,
         old_value_usd |-> old_value,
         new_value_usd |-> new_value,
         delta_value_usd |-> delta_value,
         old_weight_pct |-> old_weight,
         new_weight_pct |-> new_weight,
         delta_weight_pct |-> delta_weight]

\* the returned dict, for arguments that do not raise
compute_delta_row(manager_cik, report_period, cusip, prev, curr) ==
    LET companyName == (IF Truthy(curr) THEN curr ELSE prev).companyName
        old_shares == IF Truthy(prev) THEN prev.shares ELSE 0
        new_shares == IF Truthy(curr) THEN curr.shares ELSE 0
        delta_shares == new_shares - old_shares
        old_value == IF Truthy(prev) THEN prev.value_usd ELSE 0
        new_value == IF Truthy(curr) THEN curr.value_usd ELSE 0
        delta_value == new_value - old_value
        old_weight == IF Truthy(prev) THEN prev.weight_pct ELSE Rat(0, 1)
        new_weight == IF Truthy(curr) THEN curr.weight_pct ELSE Rat(0, 1)
        delta_weight == RatSub(new_weight, old_weight)
    IN  [cik |-> manager_cik,
         reportPeriod |-> report_period,
         ticker |-> cusip,
         companyName |-> companyName,
         delta_type |-> delta_type(prev, curr, delta_shares, delta_value),
         old_shares |-> old_shares,
         new_shares |-> new_shares,
         delta_shares |-> delta_shares,
         old_value_usd |-> old_value,
         new_value_usd |-> new_value,
         delta_value_usd |-> delta_value,
         old_weight_pct |-> old_weight,
         new_weight_pct |-> new_weight,
         delta_weight_pct |-> delta_weight]

(***************************************************************************)
(* parse_13f.parse_and_upsert: the writer of positions_13f                 *)
(***************************************************************************)
\* the columns of positions_13f the delta build reads, as parse_13f writes them
FilingRows ==
    {[cusip |-> "AAA", issuer |-> "Acme", shares |-> <<2>>, value_usd |-> <<3>>],
     [cusip |-> "BBB", issuer |-> "Apex", shares |-> <<1>>, value_usd |-> <<1>>]}

\* a plausible slip: a plain insert that keeps the row already stored under the key
InsertOrReplace_keep_old(tbl, row) == tbl \cup {row}

\* INSERT OR REPLACE of one row under PRIMARY KEY (manager_cik, report_period, cusip)
InsertOrReplace(tbl, row) ==
    {r \in tbl : ~(r.manager_cik = row.manager_cik /\ r.report_period = row.report_period
                   /\ r.cusip = row.cusip)} \cup {row}

RECURSIVE InsertAll(_, _)
InsertAll(tbl, rows) ==
    IF rows = <<>> THEN tbl ELSE InsertAll(InsertOrReplace(tbl, Head(rows)), Tail(rows))

\* DELETE FROM positions_13f WHERE manager_cik=? AND report_period=?, then executemany
Upsert(tbl, manager_cik, period, rows) ==
    InsertAll(tbl \ QuarterRows(tbl, manager_cik, period),
              [k \in DOMAIN rows |->
                  [manager_cik |-> manager_cik, report_period |-> period,
                   cusip |-> rows[k].cusip, issuer |-> rows[k].issuer,
                   shares |-> rows[k].shares, value_usd |-> rows[k].value_usd]])

SeqsUpTo(S, n) == UNION {[1..k -> S] : k \in 0..n}

(***************************************************************************)
(* build_positions_delta.main                                              *)
(***************************************************************************)
NotRunning == pc \in {"idle", "done", "crashed"}

NoRun == [delta |-> EmptyBag, positions |-> {}, complete |-> FALSE]

\* a plausible slip: the table is not cleared before the rebuild
ClearedDelta_kept(tbl) == tbl

\* DELETE FROM positions_13f_delta
ClearedDelta(tbl) == EmptyBag

\* a plausible slip: every known cusip is reconciled, held in either quarter or not
all_cusips_every(prev_positions, curr_positions) == Cusips

\* a plausible slip: only the current quarter's securities are reconciled
all_cusips_curr_only(prev_positions, curr_positions) == DOMAIN curr_positions

\* set(prev_positions.keys()) | set(curr_positions.keys())
all_cusips(prev_positions, curr_positions) == DOMAIN prev_positions \cup DOMAIN curr_positions

\* sorted(periods)
periods_sorted(periods) == Sorted(Range(periods))

\* a plausible slip: range(2, n) skips the first pair
LoopRange_from_2(n) == 2..(n - 1)

\* range(1, len(periods_sorted))
LoopRange(n) == 1..(n - 1)

\* a plausible slip: the load deletes the rows it has read
TableAfterFetch_consumed(tbl, manager_cik, report_period) ==
    tbl \ QuarterRows(tbl, manager_cik, report_period)

\* positions_13f after fetch_quarter_positions: its only statement is a SELECT
TableAfterFetch(tbl, manager_cik, report_period) == tbl

\* the orders in which a Python set can be iterated
Orders(S) == {o \in [1..Cardinality(S) -> S] : Range(o) = S}

CurManager == manager_order[mgr_idx]
CurPeriods == periods_sorted(by_manager[CurManager])
NextIndices == {k \in LoopRange(Len(CurPeriods)) : k > i}
NextI == CHOOSE k \in NextIndices : \A j \in NextIndices : k <= j

\* parse_and_upsert's transaction on positions_13f, lines 139-152, between runs of the build
ParseUpsert ==
    /\ NotRunning
    /\ filings < MaxFilings
    /\ \E m \in Managers, p \in Periods, rows \in SeqsUpTo(FilingRows, MaxRows) :
          positions_13f' = Upsert(positions_13f, m, p, rows)
    /\ filings' = filings + 1
    /\ pc' = "idle"
    /\ manager_order' = <<>>
    /\ by_manager' = <<>>
    /\ mgr_idx' = 0
    /\ i' = 0
    /\ delta_rows' = <<>>
    /\ cur_pair' = <<>>
    /\ total_inserted' = 0
    /\ before' = NoRun
    /\ written' = EmptyBag
    /\ processed' = <<>>
    /\ failed' = <<>>
    /\ UNCHANGED <<positions_13f_delta, runs, rowVars, extVars>>

\* lines 114-154: connect, clear the delta table, commit, group the periods by manager
BuildStart ==
    /\ NotRunning
    /\ runs < MaxRuns
    /\ runs' = runs + 1
    /\ before' = [delta |-> positions_13f_delta, positions |-> positions_13f,
                  complete |-> pc = "done"]
    /\ positions_13f_delta' = ClearedDelta(positions_13f_delta)
    /\ manager_order' = Sorted({r.manager_cik : r \in positions_13f})
    /\ by_manager' = [m \in {r.manager_cik : r \in positions_13f} |->
                        Sorted({r.report_period : r \in {x \in positions_13f : x.manager_cik = m}})]
    /\ mgr_idx' = 1
    /\ i' = 0
    /\ delta_rows' = <<>>
    /\ cur_pair' = <<>>
    /\ total_inserted' = 0
    /\ written' = EmptyBag
    /\ processed' = <<>>
    /\ failed' = <<>>
    /\ pc' = "loop"
    /\ UNCHANGED <<positions_13f, filings, rowVars, extVars>>

\* lines 158-159: a manager with fewer than two quarters is skipped
ManagerSkip ==
    /\ pc = "loop"
    /\ mgr_idx <= Len(manager_order)
    /\ Len(CurPeriods) < 2
    /\ mgr_idx' = mgr_idx + 1
    /\ i' = 0
    /\ UNCHANGED <<tableVars, pc, manager_order, by_manager, delta_rows, cur_pair,
                   total_inserted, runs, before, written, processed, failed, rowVars, extVars>>

\* lines 163-196: one iteration of the inner loop, committed at line 195
ProcessPair ==
    /\ pc = "loop"
    /\ mgr_idx <= Len(manager_order)
    /\ Len(CurPeriods) >= 2
    /\ NextIndices # {}
    /\ LET prev_rp == CurPeriods[NextI]
           curr_rp == CurPeriods[NextI + 1]
           prev_positions == fetch_quarter_positions(positions_13f, CurManager, prev_rp)
           curr_positions == fetch_quarter_positions(positions_13f, CurManager, curr_rp)
           cusips == all_cusips(prev_positions, curr_positions)
       IN  /\ \A c \in cusips :
                 ~compute_delta_row_raises(Get(prev_positions, c), Get(curr_positions, c))
           /\ \E order \in Orders(cusips) :
                 delta_rows' = [k \in DOMAIN order |->
                                  compute_delta_row(CurManager, curr_rp, order[k],
                                                    Get(prev_positions, order[k]),
                                                    Get(curr_positions, order[k]))]
           /\ cur_pair' = <<CurManager, prev_rp, curr_rp>>
           /\ processed' = Append(processed, <<CurManager, prev_rp, curr_rp>>)
           /\ positions_13f' = TableAfterFetch(TableAfterFetch(positions_13f, CurManager, prev_rp),
                                               CurManager, curr_rp)
    /\ positions_13f_delta' = positions_13f_delta (+) SeqToBag(delta_rows')
    /\ written' = written (+) SeqToBag(delta_rows')
    /\ total_inserted' = total_inserted + Len(delta_rows')
    /\ i' = NextI
    /\ UNCHANGED <<filings, pc, manager_order, by_manager, mgr_idx,
                   runs, before, failed, rowVars, extVars>>

\* the inner loop of a manager is exhausted: next manager
ManagerDone ==
    /\ pc = "loop"
    /\ mgr_idx <= Len(manager_order)
    /\ Len(CurPeriods) >= 2
    /\ NextIndices = {}
    /\ mgr_idx' = mgr_idx + 1
    /\ i' = 0
    /\ UNCHANGED <<tableVars, pc, manager_order, by_manager, delta_rows, cur_pair,
                   total_inserted, runs, before, written, processed, failed, rowVars, extVars>>

\* an exception inside an iteration (sqlite3.Error from a query, the insert or the
\* commit; ValueError from compute_delta_row): main has no handler, the script ends
\* with a traceback and the open transaction is rolled back
PairFails ==
    /\ pc = "loop"
    /\ mgr_idx <= Len(manager_order)
    /\ Len(CurPeriods) >= 2
    /\ NextIndices # {}
    /\ failed' = <<CurManager, CurPeriods[NextI], CurPeriods[NextI + 1]>>
    /\ pc' = "crashed"
    /\ UNCHANGED <<tableVars, manager_order, by_manager, mgr_idx, i, delta_rows, cur_pair,
                   total_inserted, runs, before, written, processed, rowVars, extVars>>

\* lines 198-199: close and report total_inserted
BuildFinish ==
    /\ pc = "loop"
    /\ mgr_idx > Len(manager_order)
    /\ pc' = "done"
    /\ UNCHANGED <<tableVars, manager_order, by_manager, mgr_idx, i, delta_rows, cur_pair,
                   total_inserted, runs, before, written, processed, failed, rowVars, extVars>>

\* no build has run in this process: main's locals and the history are at rest
BuildLocalsIdle ==
    /\ pc = "idle"
    /\ manager_order = <<>>
    /\ by_manager = <<>>
    /\ mgr_idx = 0
    /\ i = 0
    /\ delta_rows = <<>>
    /\ cur_pair = <<>>
    /\ total_inserted = 0
    /\ runs = 0
    /\ before = NoRun
    /\ written = EmptyBag
    /\ processed = <<>>
    /\ failed = <<>>

BuildIdle ==
    /\ positions_13f = {}
    /\ positions_13f_delta = EmptyBag
    /\ filings = 0
    /\ BuildLocalsIdle

RowOff ==
    /\ row_args = None
    /\ prev_pos = None
    /\ curr_pos = None
    /\ delta_row = None
    /\ row_pc = "off"

PairOff ==
    /\ pair_args = <<>>
    /\ pair_prev_positions = <<>>
    /\ pair_curr_positions = <<>>
    /\ pair_rows = <<>>
    /\ pair_pc = "off"

ReadOff ==
    /\ read_args = None
    /\ deltas = <<>>
    /\ read_pc = "off"

SnapOff ==
    /\ snap_args = None
    /\ snapshot = None
    /\ snap_pc = "off"

HttpOff ==
    /\ http_args = None
    /\ attempt = 0
    /\ last_err = <<>>
    /\ http_attempts = 0
    /\ http_pc = "off"

NoIngest == [count |-> 0, csv |-> <<>>, same |-> FALSE, before |-> {}]

IngestOff ==
    /\ filings_table = {}
    /\ filings_seq = 0
    /\ last_by_uniq = {}
    /\ ingest_log = NoIngest

NoQueueRun == [outcome |-> "off", item |-> <<>>, queue_before |-> {}, positions_before |-> {}]

QueueOff ==
    /\ parse_queue = {}
    /\ filings_parsed = {}
    /\ queue_log = NoQueueRun

NoSubCall == [count |-> 0, op |-> "none", args |-> <<>>, result |-> <<>>, raised |-> FALSE,
              before |-> {}]

SubOff ==
    /\ subscribers = {}
    /\ subscribers_seq = 0
    /\ sub_log = NoSubCall

\* the queries of the model: the slices of --slice-years 2024 2025
Queries == {"2024", "2025"}

NoCheckpoint == [kind |-> "absent"]

NoSliceStart == [found |-> NoCheckpoint, from_idx |-> 0, total_written |-> 0]

ScrapeOff ==
    /\ ckpt_file = NoCheckpoint
    /\ outputs = [q \in Queries |-> 0]
    /\ scrape_pc = "off"
    /\ hash_seed = 0
    /\ slices_left = <<>>
    /\ qhash = <<>>
    /\ from_idx = 0
    /\ total_written = 0
    /\ page_hits = 0
    /\ scrape_runs = 0
    /\ slice_start = NoSliceStart

OrderOff ==
    /\ in_flight = {}
    /\ inserted = <<>>

SvcOff ==
    /\ HttpOff
    /\ IngestOff
    /\ QueueOff
    /\ SubOff
    /\ ScrapeOff
    /\ OrderOff

Init ==
    /\ BuildIdle
    /\ RowOff
    /\ PairOff
    /\ last_filing = None
    /\ SvcOff
    /\ ReadOff
    /\ SnapOff

Next ==
    \/ ParseUpsert
    \/ BuildStart
    \/ ManagerSkip
    \/ ProcessPair
    \/ ManagerDone
    \/ PairFails
    \/ BuildFinish

Spec == Init /\ [][Next]_vars

(***************************************************************************)
(* compute_delta_row on its own: every call fetch_quarter_positions can    *)
(* feed it, and the call with neither side                                 *)
(***************************************************************************)
\* the weights a position of value v can have: v / total * 100 for a quarter total >= v
WeightsOf(v) ==
    IF v = 0 THEN {Rat(0, 1)} ELSE {Rat(v * 100, t) : t \in v..(v + MaxValue)}

\* the position dicts fetch_quarter_positions can return for a cusip
PositionsOf(cusip) ==
    UNION {[cusip : {cusip}, companyName : Issuers, shares : 0..MaxShares,
            value_usd : {v}, weight_pct : WeightsOf(v)] : v \in 0..MaxValue}

InitRow ==
    /\ BuildIdle
    /\ row_args \in [manager_cik : Managers, report_period : Periods, cusip : Cusips]
    /\ prev_pos \in PositionsOf(row_args.cusip) \cup {None}
    /\ curr_pos \in PositionsOf(row_args.cusip) \cup {None}
    /\ delta_row = None
    /\ row_pc = "call"
    /\ PairOff
    /\ last_filing = None
    /\ SvcOff
    /\ ReadOff
    /\ SnapOff

\* lines 63-110: the row is built and returned
RowReturn ==
    /\ row_pc = "call"
    /\ ~compute_delta_row_raises(prev_pos, curr_pos)
    /\ delta_row' = compute_delta_row(row_args.manager_cik, row_args.report_period,
                                      row_args.cusip, prev_pos, curr_pos)
    /\ row_pc' = "returned"
    /\ UNCHANGED <<tableVars, buildVars, extVars, row_args, prev_pos, curr_pos>>

\* lines 60-61: raise ValueError
RowRaise ==
    /\ row_pc = "call"
    /\ compute_delta_row_raises(prev_pos, curr_pos)
    /\ row_pc' = "raised"
    /\ UNCHANGED <<tableVars, buildVars, extVars, row_args, prev_pos, curr_pos, delta_row>>

NextRow ==
    \/ RowReturn
    \/ RowRaise

SpecRow == InitRow /\ [][NextRow]_vars

(***************************************************************************)
(* Properties of compute_delta_row (SpecRow)                               *)
(***************************************************************************)
BothPresent == prev_pos # None /\ curr_pos # None
d_shares == curr_pos.shares - prev_pos.shares
d_value == curr_pos.value_usd - prev_pos.value_usd

\* C2: a delta record is "new" exactly when the security has no entry in the previous
\* snapshot and "closed" exactly when it has no entry in the current snapshot; a security
\* present on both sides is neither, whatever its quantities (zero included).
C2_NewClosedIffAbsent ==
    row_pc = "returned" =>
        /\ (delta_row.delta_type = "new") <=> (prev_pos = None)
        /\ (delta_row.delta_type = "closed") <=> (curr_pos = None)
        /\ BothPresent => delta_row.delta_type \notin {"new", "closed"}

C2_Witness ==
    /\ row_pc = "returned"
    /\ BothPresent
    /\ prev_pos.shares = 0 /\ prev_pos.value_usd = 0
    /\ curr_pos.shares > 0
    /\ delta_row.delta_type = "increase"

\* C3: with both sides present, d_shares > 0 and d_value >= 0 give "increase", and
\* d_shares < 0 and d_value <= 0 give "decrease".
C3_AgreeingDirections ==
    (row_pc = "returned" /\ BothPresent) =>
        /\ (d_shares > 0 /\ d_value >= 0) => delta_row.delta_type = "increase"
        /\ (d_shares < 0 /\ d_value <= 0) => delta_row.delta_type = "decrease"

C3_Witness ==
    /\ row_pc = "returned"
    /\ BothPresent
    /\ d_shares > 0 /\ d_value = 0
    /\ delta_row.delta_type = "increase"

\* C4: with both sides present, when the share and value directions disagree or the share
\* count is unchanged, the value direction alone decides: "increase" if d_value > 0,
\* otherwise "decrease" (so unchanged shares with a falling or an unchanged value is
\* "decrease").
C4_ValueDirectionTiebreak ==
    (/\ row_pc = "returned"
     /\ BothPresent
     /\ \/ d_shares = 0
        \/ (d_shares > 0 /\ d_value < 0)
        \/ (d_shares < 0 /\ d_value > 0)) =>
        delta_row.delta_type = (IF d_value > 0 THEN "increase" ELSE "decrease")

C4_Witness ==
    /\ row_pc = "returned"
    /\ BothPresent
    /\ d_shares = 0 /\ d_value = 0
    /\ delta_row.delta_type = "decrease"

\* C5: every delta record has delta = new - old for shares, value and weight, the fields
\* of an absent side being 0; a closed record's deltas are the negated previous values.
C5_DeltasAreNewMinusOld ==
    row_pc = "returned" =>
        /\ delta_row.old_shares = (IF prev_pos = None THEN 0 ELSE prev_pos.shares)
        /\ delta_row.old_value_usd = (IF prev_pos = None THEN 0 ELSE prev_pos.value_usd)
        /\ delta_row.old_weight_pct = (IF prev_pos = None THEN <<0, 1>> ELSE prev_pos.weight_pct)
        /\ delta_row.new_shares = (IF curr_pos = None THEN 0 ELSE curr_pos.shares)
        /\ delta_row.new_value_usd = (IF curr_pos = None THEN 0 ELSE curr_pos.value_usd)
        /\ delta_row.new_weight_pct = (IF curr_pos = None THEN <<0, 1>> ELSE curr_pos.weight_pct)
        /\ delta_row.delta_shares = delta_row.new_shares - delta_row.old_shares
        /\ delta_row.delta_value_usd = delta_row.new_value_usd - delta_row.old_value_usd
        /\ delta_row.delta_weight_pct[1] * delta_row.new_weight_pct[2] * delta_row.old_weight_pct[2]
             = delta_row.delta_weight_pct[2]
                 * (delta_row.new_weight_pct[1] * delta_row.old_weight_pct[2]
                    - delta_row.old_weight_pct[1] * delta_row.new_weight_pct[2])
        /\ curr_pos = None =>
              /\ delta_row.delta_shares = -prev_pos.shares
              /\ delta_row.delta_value_usd = -prev_pos.value_usd
              /\ delta_row.delta_weight_pct = <<-prev_pos.weight_pct[1], prev_pos.weight_pct[2]>>

C5_Witness ==
    /\ row_pc = "returned"
    /\ curr_pos = None
    /\ prev_pos.shares > 0 /\ prev_pos.value_usd > 0
    /\ delta_row.delta_type = "closed"
    /\ delta_row.delta_shares < 0
    /\ delta_row.delta_weight_pct[1] < 0

(***************************************************************************)
(* Properties of the delta build (Spec)                                    *)
(***************************************************************************)
\* the securities stored for a manager and quarter
StoredCusips(m, p) == {r.cusip : r \in QuarterRows(positions_13f, m, p)}

StoredPeriods(m) == {r.report_period : r \in {x \in positions_13f : x.manager_cik = m}}

\* a and b are quarters of m with no quarter of m strictly between them in string order
Adjacent(m, a, b) ==
    /\ a \in StoredPeriods(m) /\ b \in StoredPeriods(m)
    /\ LexLess(a, b)
    /\ ~\E c \in StoredPeriods(m) : LexLess(a, c) /\ LexLess(c, b)

AdjacentPairs == {t \in Managers \X Periods \X Periods : Adjacent(t[1], t[2], t[3])}

\* the rows of a bag that belong to (manager, period)
RowsOf(bag, m, p) ==
    LET keep == {r \in BagToSet(bag) : r.cik = m /\ r.reportPeriod = p}
    IN  [r \in keep |-> bag[r]]

\* the rows the build writes for the pair (m, a, b)
PairRows(m, a, b) ==
    LET prev == fetch_quarter_positions(positions_13f, m, a)
        curr == fetch_quarter_positions(positions_13f, m, b)
    IN  SetToBag({compute_delta_row(m, b, c, Get(prev, c), Get(curr, c)) :
                     c \in DOMAIN prev \cup DOMAIN curr})

\* C1: for every pair of adjacent quarters the build processes, the reconciliation emits
\* exactly |prev U curr| records: one for each security of either snapshot, none for any
\* other security.
C1_OneRecordPerSecurityOfUnion ==
    cur_pair # <<>> =>
        LET union == StoredCusips(cur_pair[1], cur_pair[2]) \cup StoredCusips(cur_pair[1], cur_pair[3])
        IN  /\ Len(delta_rows) = Cardinality(union)
            /\ \A c \in union : Cardinality({k \in DOMAIN delta_rows : delta_rows[k].ticker = c}) = 1
            /\ \A k \in DOMAIN delta_rows : delta_rows[k].ticker \in union

C1_Witness ==
    /\ cur_pair # <<>>
    /\ StoredCusips(cur_pair[1], cur_pair[2]) = {"AAA", "BBB"}
    /\ StoredCusips(cur_pair[1], cur_pair[3]) = {"AAA"}
    /\ Len(delta_rows) = 2

\* C6: the replacement of the delta records of a (manager, period) is atomic: while a
\* recomputation runs, a reader of the committed table sees, for a (manager, period) that
\* had records before the run and has records after it, either the old records or the
\* new ones, never neither and never a part.
C6_ReplacementIsAtomic ==
    pc = "loop" =>
        \A t \in AdjacentPairs :
            (RowsOf(before.delta, t[1], t[3]) # EmptyBag) =>
                \/ RowsOf(positions_13f_delta, t[1], t[3]) = RowsOf(before.delta, t[1], t[3])
                \/ RowsOf(positions_13f_delta, t[1], t[3]) = PairRows(t[1], t[2], t[3])

\* C7: recomputing the deltas a second time over unchanged position snapshots leaves the
\* delta table with exactly the records the first run left.
C7_RecomputeIsIdempotent ==
    (pc = "done" /\ before.complete /\ before.positions = positions_13f) =>
        positions_13f_delta = before.delta

C7_Witness ==
    /\ pc = "done"
    /\ before.complete
    /\ before.positions = positions_13f
    /\ BagCardinality(positions_13f_delta) >= 3
    /\ positions_13f_delta = before.delta

\* C8: after a completed recomputation the delta table holds exactly the records that run
\* computed: nothing of an earlier run survives and no (manager, period, security) key
\* occurs twice.
C8_TableIsExactlyThisRun ==
    pc = "done" =>
        /\ positions_13f_delta = written
        /\ \A r \in BagToSet(positions_13f_delta) : CopiesIn(r, positions_13f_delta) = 1
        /\ \A r1, r2 \in BagToSet(positions_13f_delta) :
              (r1.cik = r2.cik /\ r1.reportPeriod = r2.reportPeriod /\ r1.ticker = r2.ticker)
                  => r1 = r2

C8_Witness ==
    /\ pc = "done"
    /\ positions_13f_delta = written
    /\ written # EmptyBag
    /\ \E r \in BagToSet(before.delta) : ~BagIn(r, positions_13f_delta)

\* C9: for a manager with n quarters the build reconciles exactly the n-1 pairs adjacent
\* in string order, each once, and stores each pair's records under the later quarter;
\* a manager with fewer than two quarters, and every manager's earliest quarter, get no
\* records.
C9_AdjacentPairsUnderLaterPeriod ==
    pc = "done" =>
        /\ Range(processed) = AdjacentPairs
        /\ Len(processed) = Cardinality(AdjacentPairs)
        /\ \A m \in Managers :
              Cardinality({t \in AdjacentPairs : t[1] = m})
                  = (IF StoredPeriods(m) = {} THEN 0 ELSE Cardinality(StoredPeriods(m)) - 1)
        /\ \A m \in Managers, p \in Periods :
              IF \E a \in Periods : Adjacent(m, a, p)
              THEN LET a == CHOOSE x \in Periods : Adjacent(m, x, p)
                   IN  RowsOf(positions_13f_delta, m, p) = PairRows(m, a, p)
              ELSE RowsOf(positions_13f_delta, m, p) = EmptyBag
        /\ \A r \in BagToSet(positions_13f_delta) : r.cik \in Managers /\ r.reportPeriod \in Periods

C9_Witness ==
    /\ pc = "done"
    /\ \E m \in Managers :
          /\ StoredPeriods(m) = Periods
          /\ RowsOf(positions_13f_delta, m, <<1>>) = EmptyBag
          /\ RowsOf(positions_13f_delta, m, <<1, 0>>) # EmptyBag
          /\ RowsOf(positions_13f_delta, m, <<9>>) # EmptyBag
          /\ processed = <<<<m, <<1>>, <<1, 0>>>>, <<m, <<1, 0>>, <<9>>>>>>

\* C10: when one (manager, period) pair fails, the batch skips it and goes on to the
\* end: once the script has ended, every other pair has been processed and its records
\* are in the table.
C10_FailedPairIsSkipped ==
    pc \in {"done", "crashed"} =>
        /\ \A t \in AdjacentPairs \ {failed} :
              /\ t \in Range(processed)
              /\ RowsOf(positions_13f_delta, t[1], t[3]) = PairRows(t[1], t[2], t[3])

(***************************************************************************)
(* One iteration of the pair loop on its own (lines 167-177), over quarters *)
(* whose rows carry NULL, zero and negative values, and quarters without    *)
(* rows                                                                    *)
(***************************************************************************)
PairShares == {NULL, <<2>>}
PairValues == {NULL, <<-1>>, <<0>>, <<1>>, <<3>>}

\* the contents positions_13f can have for one (manager, period): at most one row per cusip
QuarterContents(manager_cik, period) ==
    {{[manager_cik |-> manager_cik, report_period |-> period, cusip |-> c,
       issuer |-> "Acme", shares |-> f[c][1], value_usd |-> f[c][2]] : c \in DOMAIN f} :
        f \in UNION {[S -> PairShares \X PairValues] : S \in SUBSET Cusips}}

\* rows of another manager and of another quarter of the same manager
OtherRows ==
    {[manager_cik |-> <<2>>, report_period |-> <<1>>, cusip |-> "AAA",
      issuer |-> "Apex", shares |-> <<1>>, value_usd |-> <<1>>],
     [manager_cik |-> <<1>>, report_period |-> <<9>>, cusip |-> "BBB",
      issuer |-> "Apex", shares |-> <<1>>, value_usd |-> <<1>>]}

InitPair ==
    /\ BuildLocalsIdle
    /\ RowOff
    /\ last_filing = None
    /\ SvcOff
    /\ ReadOff
    /\ SnapOff
    /\ positions_13f_delta = EmptyBag
    /\ filings = 0
    /\ pair_args = <<<<1>>, <<1>>, <<1, 0>>>>
    /\ \E prev \in QuarterContents(<<1>>, <<1>>), curr \in QuarterContents(<<1>>, <<1, 0>>),
          other \in {{}, OtherRows} :
          positions_13f = prev \cup curr \cup other
    /\ pair_prev_positions = <<>>
    /\ pair_curr_positions = <<>>
    /\ pair_rows = <<>>
    /\ pair_pc = "call"

\* lines 167-177: both snapshots are fetched and one row is computed for each cusip
PairIterate ==
    /\ pair_pc = "call"
    /\ LET prev_positions == fetch_quarter_positions(positions_13f, pair_args[1], pair_args[2])
           curr_positions == fetch_quarter_positions(positions_13f, pair_args[1], pair_args[3])
           cusips == all_cusips(prev_positions, curr_positions)
       IN  /\ pair_prev_positions' = prev_positions
           /\ pair_curr_positions' = curr_positions
           /\ \E order \in Orders(cusips) :
                 pair_rows' = [k \in DOMAIN order |->
                                 compute_delta_row(pair_args[1], pair_args[3], order[k],
                                                   Get(prev_positions, order[k]),
                                                   Get(curr_positions, order[k]))]
    /\ pair_pc' = "done"
    /\ UNCHANGED <<tableVars, buildVars, rowVars, pair_args, parseVars, readVars, snapVars, svcVars>>

NextPair ==
    \/ PairIterate

SpecPair == InitPair /\ [][NextPair]_vars

\* the stored row of a security in a quarter, as a set of at most one row
StoredRow(m, p, c) == {r \in positions_13f : r.manager_cik = m /\ r.report_period = p /\ r.cusip = c}

\* the stored value of a security in a quarter, a missing row or a NULL counting 0
StoredValue(m, p, c) ==
    IF StoredRow(m, p, c) = {} THEN 0
    ELSE LET r == CHOOSE x \in StoredRow(m, p, c) : TRUE
         IN  IF r.value_usd = NULL THEN 0 ELSE r.value_usd[1]

StoredShares(m, p, c) ==
    IF StoredRow(m, p, c) = {} THEN 0
    ELSE LET r == CHOOSE x \in StoredRow(m, p, c) : TRUE
         IN  IF r.shares = NULL THEN 0 ELSE r.shares[1]

RECURSIVE StoredTotalOver(_, _, _)
StoredTotalOver(m, p, S) ==
    IF S = {} THEN 0
    ELSE LET c == CHOOSE x \in S : TRUE
         IN  StoredValue(m, p, c) + StoredTotalOver(m, p, S \ {c})

\* total_period_value: the sum of the stored values of that (manager, period)
StoredTotal(m, p) == StoredTotalOver(m, p, Cusips)

\* w is the weight of value v in a quarter whose total is t
IsWeight(w, v, t) ==
    IF t > 0 THEN w[2] > 0 /\ w[1] * t = v * 100 * w[2] ELSE w = <<0, 1>>

\* C11: each position's weight_pct is market_value / total_period_value * 100 with the
\* total taken over the rows of that same (manager, period), and 0 when that total is
\* zero or negative; a delta row's old_weight uses the previous quarter's total and its
\* new_weight the current quarter's.
C11_WeightIsShareOfQuarterTotal ==
    pair_pc = "done" =>
        LET m == pair_args[1]
            a == pair_args[2]
            b == pair_args[3]
        IN  /\ \A c \in DOMAIN pair_prev_positions :
                  IsWeight(pair_prev_positions[c].weight_pct, StoredValue(m, a, c), StoredTotal(m, a))
            /\ \A c \in DOMAIN pair_curr_positions :
                  IsWeight(pair_curr_positions[c].weight_pct, StoredValue(m, b, c), StoredTotal(m, b))
            /\ \A k \in DOMAIN pair_rows :
                  /\ IF StoredRow(m, a, pair_rows[k].ticker) = {}
                     THEN pair_rows[k].old_weight_pct = <<0, 1>>
                     ELSE IsWeight(pair_rows[k].old_weight_pct,
                                   StoredValue(m, a, pair_rows[k].ticker), StoredTotal(m, a))
                  /\ IF StoredRow(m, b, pair_rows[k].ticker) = {}
                     THEN pair_rows[k].new_weight_pct = <<0, 1>>
                     ELSE IsWeight(pair_rows[k].new_weight_pct,
                                   StoredValue(m, b, pair_rows[k].ticker), StoredTotal(m, b))

C11_Witness ==
    /\ pair_pc = "done"
    /\ OtherRows \subseteq positions_13f
    /\ StoredTotal(pair_args[1], pair_args[2]) = 4
    /\ StoredTotal(pair_args[1], pair_args[3]) = 1
    /\ \E k \in DOMAIN pair_rows :
          /\ pair_rows[k].ticker = "AAA"
          /\ pair_rows[k].old_weight_pct = <<25, 1>>
          /\ pair_rows[k].new_weight_pct = <<100, 1>>

\* the sum of the weights of a snapshot, as an unreduced fraction <<num, den>>
RECURSIVE WeightSumOver(_, _)
WeightSumOver(snap, S) ==
    IF S = {} THEN <<0, 1>>
    ELSE LET c == CHOOSE x \in S : TRUE
             rest == WeightSumOver(snap, S \ {c})
             w == snap[c].weight_pct
         IN  <<w[1] * rest[2] + rest[1] * w[2], w[2] * rest[2]>>

WeightsSumTo100(snap) ==
    LET sum == WeightSumOver(snap, DOMAIN snap)
    IN  sum[1] = 100 * sum[2]

\* C12: for a (manager, period) whose total value is greater than 0, the weight_pct of
\* all positions the snapshot loader returns sum to 100 (exactly, in the rational
\* arithmetic of the model).
C12_WeightsSumTo100 ==
    pair_pc = "done" =>
        /\ StoredTotal(pair_args[1], pair_args[2]) > 0 => WeightsSumTo100(pair_prev_positions)
        /\ StoredTotal(pair_args[1], pair_args[3]) > 0 => WeightsSumTo100(pair_curr_positions)

C12_Witness ==
    /\ pair_pc = "done"
    /\ OtherRows \subseteq positions_13f
    /\ DOMAIN pair_curr_positions = Cusips
    /\ pair_curr_positions["AAA"].weight_pct = <<75, 1>>
    /\ pair_curr_positions["BBB"].weight_pct = <<25, 1>>
    /\ WeightsSumTo100(pair_curr_positions)

\* the stored cusips of a quarter
StoredCusipsOf(m, p) == {c \in Cusips : StoredRow(m, p, c) # {}}

\* a loaded snapshot carries every stored row of the quarter, a NULL read as 0
LoadsWithNullAsZero(snap, m, p) ==
    /\ DOMAIN snap = StoredCusipsOf(m, p)
    /\ \A c \in DOMAIN snap :
          /\ snap[c].shares = StoredShares(m, p, c)
          /\ snap[c].value_usd = StoredValue(m, p, c)
          /\ IsWeight(snap[c].weight_pct, StoredValue(m, p, c), StoredTotal(m, p))

\* C17: a NULL shares or NULL value_usd of a stored position row counts as 0 in the
\* quarter's total, in the weight and in the delta fields, and neither the snapshot load
\* nor the row computation fails on it: the completed pair iteration holds a position
\* for every stored row and a delta row for every stored cusip.
C17_NullCountsAsZero ==
    pair_pc = "done" =>
          LET m == pair_args[1]
              a == pair_args[2]
              b == pair_args[3]
          IN  /\ LoadsWithNullAsZero(pair_prev_positions, m, a)
              /\ LoadsWithNullAsZero(pair_curr_positions, m, b)
              /\ {pair_rows[k].ticker : k \in DOMAIN pair_rows}
                    = StoredCusipsOf(m, a) \cup StoredCusipsOf(m, b)
              /\ \A k \in DOMAIN pair_rows :
                    LET c == pair_rows[k].ticker
                    IN  /\ pair_rows[k].old_shares = StoredShares(m, a, c)
                        /\ pair_rows[k].new_shares = StoredShares(m, b, c)
                        /\ pair_rows[k].delta_shares = StoredShares(m, b, c) - StoredShares(m, a, c)
                        /\ pair_rows[k].old_value_usd = StoredValue(m, a, c)
                        /\ pair_rows[k].new_value_usd = StoredValue(m, b, c)
                        /\ pair_rows[k].delta_value_usd = StoredValue(m, b, c) - StoredValue(m, a, c)

C17_Witness ==
    /\ pair_pc = "done"
    /\ \E r \in StoredRow(pair_args[1], pair_args[3], "AAA") : r.shares = NULL /\ r.value_usd = NULL
    /\ \E r \in StoredRow(pair_args[1], pair_args[2], "AAA") : r.shares = <<2>> /\ r.value_usd = <<1>>
    /\ \E r \in StoredRow(pair_args[1], pair_args[3], "BBB") : r.value_usd = <<3>>
    /\ pair_curr_positions["AAA"].weight_pct = <<0, 1>>
    /\ pair_curr_positions["BBB"].weight_pct = <<100, 1>>
    /\ \E k \in DOMAIN pair_rows :
          /\ pair_rows[k].ticker = "AAA"
          /\ pair_rows[k].new_shares = 0
          /\ pair_rows[k].delta_shares = -2
          /\ pair_rows[k].new_value_usd = 0
          /\ pair_rows[k].delta_value_usd = -1

\* C18: loading the snapshot of a (manager, period) that has no stored position rows
\* returns an empty mapping and raises nothing: the pair iteration completes with it.
C18_EmptyQuarterLoadsEmpty ==
    pair_pc = "done" =>
        /\ StoredCusipsOf(pair_args[1], pair_args[2]) = {} => DOMAIN pair_prev_positions = {}
        /\ StoredCusipsOf(pair_args[1], pair_args[3]) = {} => DOMAIN pair_curr_positions = {}

C18_Witness ==
    /\ pair_pc = "done"
    /\ OtherRows \subseteq positions_13f
    /\ StoredCusipsOf(pair_args[1], pair_args[2]) = {}
    /\ DOMAIN pair_prev_positions = {}
    /\ Len(pair_rows) = 2
    /\ \A k \in DOMAIN pair_rows : pair_rows[k].delta_type = "new"

\* the number of current positions whose value is above / not below that of cusip c
CurrentAbove(c) ==
    Cardinality({x \in DOMAIN pair_curr_positions :
                    pair_curr_positions[x].value_usd > pair_curr_positions[c].value_usd})

CurrentNotBelow(c) ==
    Cardinality({x \in DOMAIN pair_curr_positions :
                    pair_curr_positions[x].value_usd >= pair_curr_positions[c].value_usd})

\* C15: every delta record whose security is present in the current period carries
\* rank_in_portfolio, the 1-based index of the security in the current positions sorted
\* by market value descending, and every closed record carries none (or a null one).
C15_RankInPortfolio ==
    pair_pc = "done" =>
        \A k \in DOMAIN pair_rows :
            LET r == pair_rows[k]
            IN  IF r.ticker \in DOMAIN pair_curr_positions
                THEN /\ "rank_in_portfolio" \in DOMAIN r
                     /\ r.rank_in_portfolio \in (CurrentAbove(r.ticker) + 1)..CurrentNotBelow(r.ticker)
                ELSE "rank_in_portfolio" \in DOMAIN r => r.rank_in_portfolio = NULL

\* the change-type labels of migrate_positions_delta.py line 24
DeltaTypes == {"new", "increase", "decrease", "closed"}

\* C19: every delta record the build has persisted has a change type in
\* {new, closed, increase, decrease}; no other label, such as unchanged, is written.
C19_FourChangeTypes ==
    \A r \in BagToSet(positions_13f_delta) : r.delta_type \in DeltaTypes

C19_Witness ==
    /\ pc = "done"
    /\ \E r \in BagToSet(positions_13f_delta) : r.delta_type = "new"
    /\ \E r \in BagToSet(positions_13f_delta) : r.delta_type = "closed"
    /\ \E r \in BagToSet(positions_13f_delta) :
          /\ r.delta_shares = 0
          /\ r.delta_value_usd = 0
          /\ r.old_shares > 0
          /\ r.delta_type = "decrease"

\* C20: the issuer name of a delta record is the current snapshot's name whenever the
\* security is present in the current period, and the previous snapshot's name only when
\* it is absent from the current period.
C20_IssuerNameCurrentFirst ==
    row_pc = "returned" =>
        delta_row.companyName = IF curr_pos # None THEN curr_pos.companyName
                                ELSE prev_pos.companyName

C20_Witness ==
    /\ row_pc = "returned"
    /\ BothPresent
    /\ prev_pos.companyName = "Acme"
    /\ curr_pos.companyName = "Apex"
    /\ delta_row.companyName = "Apex"

\* C22: a run of the delta build never modifies the stored positions: from its start to
\* its end, completed or crashed, positions_13f is the table the run started with; the
\* run writes the delta table only.
C22_PositionsUntouchedByBuild ==
    pc # "idle" => /\ positions_13f = before.positions
                   /\ runs > 0

C22_Witness ==
    /\ pc = "done"
    /\ positions_13f = before.positions
    /\ Cardinality(positions_13f) >= 3
    /\ Len(processed) >= 2
    /\ before.delta = EmptyBag
    /\ positions_13f_delta # EmptyBag

\* the pair the loop takes next, when there is one
NextPairPending ==
    /\ pc = "loop"
    /\ mgr_idx <= Len(manager_order)
    /\ Len(CurPeriods) >= 2
    /\ NextIndices # {}

\* C25: compute_delta_row raises its ValueError when it is given neither a previous nor
\* a current position, and only then; no run of the delta build reaches it, because for
\* every pair the loop takes, each cusip it passes is a key of one of the two snapshots.
C25_SelfCheckNeverReached ==
    /\ compute_delta_row_raises(None, None)
    /\ \A c \in Cusips : \A pos \in PositionsOf(c) :
          /\ ~compute_delta_row_raises(pos, None)
          /\ ~compute_delta_row_raises(None, pos)
          /\ ~compute_delta_row_raises(pos, pos)
    /\ NextPairPending =>
          LET prev_positions == fetch_quarter_positions(positions_13f, CurManager, CurPeriods[NextI])
              curr_positions == fetch_quarter_positions(positions_13f, CurManager,
                                                        CurPeriods[NextI + 1])
          IN  \A c \in all_cusips(prev_positions, curr_positions) :
                 ~compute_delta_row_raises(Get(prev_positions, c), Get(curr_positions, c))

C25_Witness ==
    /\ NextPairPending
    /\ StoredCusips(CurManager, CurPeriods[NextI]) = {"AAA"}
    /\ StoredCusips(CurManager, CurPeriods[NextI + 1]) = {"BBB"}
    /\ Len(processed) = 1

(***************************************************************************)
(* parse_and_upsert on its own: filings that repeat a cusip and re-parsed   *)
(* (manager, period) pairs                                                  *)
(***************************************************************************)
\* infoTable rows of a filing: a cusip can occur twice with different holdings
AllFilingRows ==
    FilingRows \cup {[cusip |-> "AAA", issuer |-> "Acme", shares |-> <<1>>, value_usd |-> <<1>>]}

ParsedManagers == {<<1>>}
ParsedPeriods == {<<1>>, <<9>>}

InitParse ==
    /\ BuildLocalsIdle
    /\ RowOff
    /\ PairOff
    /\ ReadOff
    /\ SnapOff
    /\ positions_13f = OtherRows
    /\ positions_13f_delta = EmptyBag
    /\ filings = 0
    /\ last_filing = None
    /\ SvcOff

\* lines 139-152 for one filing: delete the pair's rows, insert the filing's rows in order
ParseFiling ==
    /\ filings < MaxFilings
    /\ \E m \in ParsedManagers, p \in ParsedPeriods, rows \in SeqsUpTo(AllFilingRows, MaxRows) :
          /\ positions_13f' = Upsert(positions_13f, m, p, rows)
          /\ last_filing' = [manager_cik |-> m, period |-> p, rows |-> rows,
                             replaced |-> QuarterRows(positions_13f, m, p)]
    /\ filings' = filings + 1
    /\ UNCHANGED <<positions_13f_delta, buildVars, rowVars, pairVars, readVars, snapVars, svcVars>>

NextParse ==
    \/ ParseFiling

SpecParse == InitParse /\ [][NextParse]_vars

\* the filing's last row for a cusip
LastRowFor(rows, c) ==
    LET k == CHOOSE j \in DOMAIN rows :
                 rows[j].cusip = c /\ \A h \in DOMAIN rows : rows[h].cusip = c => h <= j
    IN  rows[k]

\* C13: within one (manager, period) the security identifier is unique in positions_13f
\* after any sequence of filing parses: a parse replaces the rows the pair had, leaving
\* one row per cusip of the filing (the filing's last row for it) and no other.
C13_CusipUniquePerManagerPeriod ==
    /\ \A r1, r2 \in positions_13f :
          (r1.manager_cik = r2.manager_cik /\ r1.report_period = r2.report_period
           /\ r1.cusip = r2.cusip) => r1 = r2
    /\ last_filing # None =>
          LET stored == QuarterRows(positions_13f, last_filing.manager_cik, last_filing.period)
              rows == last_filing.rows
          IN  /\ {r.cusip : r \in stored} = {rows[k].cusip : k \in DOMAIN rows}
              /\ Cardinality(stored) = Cardinality({rows[k].cusip : k \in DOMAIN rows})
              /\ \A r \in stored :
                    /\ r.issuer = LastRowFor(rows, r.cusip).issuer
                    /\ r.shares = LastRowFor(rows, r.cusip).shares
                    /\ r.value_usd = LastRowFor(rows, r.cusip).value_usd

C13_Witness ==
    /\ last_filing # None
    /\ Len(last_filing.rows) = 2
    /\ last_filing.rows[1].cusip = "AAA" /\ last_filing.rows[2].cusip = "AAA"
    /\ last_filing.rows[1] # last_filing.rows[2]
    /\ \E r \in last_filing.replaced : r.cusip = "BBB"
    /\ \E r \in last_filing.replaced : r.cusip = "AAA" /\ r.value_usd # last_filing.rows[2].value_usd
    /\ Cardinality(QuarterRows(positions_13f, last_filing.manager_cik, last_filing.period)) = 1

(***************************************************************************)
(* generate_ai_brief.fetch_manager_snapshot: the read of the delta records  *)
(***************************************************************************)
ReadCusips == {"AAA", "BBB", "CCC"}

\* the (shares, value_usd) a stored position of the read quarters can have
ReadHoldings == {<<<<1>>, <<1>>>>, <<<<2>>, <<3>>>>, <<<<1>>, <<3>>>>}

\* the contents positions_13f can have for one (manager, period) over ReadCusips
ReadQuarterContents(manager_cik, period) ==
    {{[manager_cik |-> manager_cik, report_period |-> period, cusip |-> c,
       issuer |-> "Acme", shares |-> f[c][1], value_usd |-> f[c][2]] : c \in DOMAIN f} :
        f \in UNION {[S -> ReadHoldings] : S \in SUBSET ReadCusips}}

\* the positions of another manager, held over the same two quarters
OtherManagerRows ==
    {[manager_cik |-> <<2>>, report_period |-> <<1>>, cusip |-> "AAA",
      issuer |-> "Apex", shares |-> <<1>>, value_usd |-> <<1>>],
     [manager_cik |-> <<2>>, report_period |-> <<1, 0>>, cusip |-> "AAA",
      issuer |-> "Apex", shares |-> <<2>>, value_usd |-> <<3>>]}

\* the delta records the build stores for one pair of quarters (lines 167-194 of
\* build_positions_delta.py)
PairDeltaRows(tbl, m, a, b) ==
    LET prev_positions == fetch_quarter_positions(tbl, m, a)
        curr_positions == fetch_quarter_positions(tbl, m, b)
    IN  {compute_delta_row(m, b, c, Get(prev_positions, c), Get(curr_positions, c)) :
            c \in all_cusips(prev_positions, curr_positions)}

ReadArgs ==
    {[cik |-> <<1>>, reportPeriod |-> <<1, 0>>],
     [cik |-> <<2>>, reportPeriod |-> <<1, 0>>],
     [cik |-> <<1>>, reportPeriod |-> <<1>>]}

InitRead ==
    /\ BuildLocalsIdle
    /\ RowOff
    /\ PairOff
    /\ SnapOff
    /\ last_filing = None
    /\ SvcOff
    /\ filings = 0
    /\ \E prev \in ReadQuarterContents(<<1>>, <<1>>), curr \in ReadQuarterContents(<<1>>, <<1, 0>>) :
          /\ positions_13f = prev \cup curr \cup OtherManagerRows
          /\ positions_13f_delta =
                SetToBag(PairDeltaRows(prev \cup curr, <<1>>, <<1>>, <<1, 0>>)
                         \cup PairDeltaRows(OtherManagerRows, <<2>>, <<1>>, <<1, 0>>))
    /\ read_args \in ReadArgs
    /\ deltas = <<>>
    /\ read_pc = "call"

\* LIMIT 200
DeltaLimit == 200

\* the columns of the SELECT list, lines 75-86
DeltaColumns ==
    {"delta_type", "ticker", "companyName", "delta_value_usd", "delta_weight_pct",
     "old_weight_pct", "new_weight_pct", "old_shares", "new_shares", "delta_shares",
     "old_value_usd", "new_value_usd"}

DeltaSelect(r) == [col \in DeltaColumns |-> r[col]]

\* WHERE cik = ? AND reportPeriod = ?
DeltaMatches(tbl, cik, reportPeriod) ==
    {r \in BagToSet(tbl) : r.cik = cik /\ r.reportPeriod = reportPeriod}

\* CASE delta_type WHEN 'new' THEN 1 WHEN 'increase' THEN 2 WHEN 'decrease' THEN 3
\* WHEN 'closed' THEN 4 ELSE 5 END
CaseRank(t) ==
    IF t = "new" THEN 1
    ELSE IF t = "increase" THEN 2
    ELSE IF t = "decrease" THEN 3
    ELSE IF t = "closed" THEN 4
    ELSE 5

\* a plausible slip: the second term sorts by the signed value delta
OrderedBefore_signed(r1, r2) ==
    \/ CaseRank(r1.delta_type) < CaseRank(r2.delta_type)
    \/ /\ CaseRank(r1.delta_type) = CaseRank(r2.delta_type)
       /\ r1.delta_value_usd >= r2.delta_value_usd

\* ORDER BY CASE ... END, ABS(delta_value_usd) DESC: r1 may come before r2
OrderedBefore(r1, r2) ==
    \/ CaseRank(r1.delta_type) < CaseRank(r2.delta_type)
    \/ /\ CaseRank(r1.delta_type) = CaseRank(r2.delta_type)
       /\ Abs(r1.delta_value_usd) >= Abs(r2.delta_value_usd)

\* the result lists the query can return: the matching rows in an order the ORDER BY
\* allows (rows that tie come in either order), cut at the LIMIT
DeltaResults(tbl, cik, reportPeriod) ==
    LET matching == DeltaMatches(tbl, cik, reportPeriod)
        ordered == {o \in Orders(matching) :
                       \A j, k \in DOMAIN o : j < k => OrderedBefore(o[j], o[k])}
        cut(o) == IF Len(o) <= DeltaLimit THEN o ELSE SubSeq(o, 1, DeltaLimit)
    IN  {[k \in DOMAIN cut(o) |-> DeltaSelect(cut(o)[k])] : o \in ordered}

\* lines 73-120: the deltas list is read
ReadDeltas ==
    /\ read_pc = "call"
    /\ deltas' \in DeltaResults(positions_13f_delta, read_args.cik, read_args.reportPeriod)
    /\ read_pc' = "returned"
    /\ UNCHANGED <<tableVars, buildVars, rowVars, pairVars, parseVars, snapVars, read_args, svcVars>>

\* lines 17-39: a query before the delta read raises sqlite3.OperationalError, as the
\* positions query does on a positions_13f table that has the columns of
\* init_holdiq_ai_schema.py and not cik, reportPeriod, ticker, companyName, weight_pct
ReadRaises ==
    /\ read_pc = "call"
    /\ read_pc' = "raised"
    /\ UNCHANGED <<tableVars, buildVars, rowVars, pairVars, parseVars, snapVars, read_args, deltas, svcVars>>

NextRead ==
    \/ ReadDeltas
    \/ ReadRaises

SpecRead == InitRead /\ [][NextRead]_vars

\* the priority of the change types: NEW, then INCREASE, then DECREASE, then CLOSED
TypePriority == <<"new", "increase", "decrease", "closed">>

PriorityOf(t) == CHOOSE k \in DOMAIN TypePriority : TypePriority[k] = t

top_n == 50

\* `if idx < 10`
Top10 == 10

RatAdd(a, b) == Rat(a[1] * b[2] + b[1] * a[2], a[2] * b[2])

\* the numbers of positions of the snapshot quarter: around the top-10 cut and the
\* top_n cut
SnapSizes == {0, 1, Top10 - 1, Top10, Top10 + 1, top_n, MaxHoldings}

\* how many of n positions share one value: none, one, two, half, all but one, all
SnapCounts(n) == {0, 1, 2, n \div 2, n - 1, n} \cap (0..n)

\* a quarter of n positions, the k-th cusip written k: the first a hold value 1, the
\* next b value 2, the others have NULL shares and value
SnapRows(m, period, n, a, b) ==
    {[manager_cik |-> m, report_period |-> period, cusip |-> k, issuer |-> "Acme",
      shares |-> IF k <= a + b THEN <<1>> ELSE NULL,
      value_usd |-> IF k <= a THEN <<1>> ELSE IF k <= a + b THEN <<2>> ELSE NULL] :
        k \in 1..n}

\* an earlier quarter of the same manager and the same quarter of another manager
SnapOtherRows ==
    {[manager_cik |-> <<1>>, report_period |-> <<1>>, cusip |-> 1,
      issuer |-> "Apex", shares |-> <<1>>, value_usd |-> <<2>>],
     [manager_cik |-> <<2>>, report_period |-> <<1, 0>>, cusip |-> 1,
      issuer |-> "Apex", shares |-> <<1>>, value_usd |-> <<2>>]}

\* main(): report_period is sys.argv[2], or None (written <<>>) when it is not given
InitSnap ==
    /\ BuildLocalsIdle
    /\ RowOff
    /\ PairOff
    /\ ReadOff
    /\ last_filing = None
    /\ SvcOff
    /\ filings = 0
    /\ positions_13f_delta = EmptyBag
    /\ \E n \in SnapSizes, other \in {{}, SnapOtherRows} :
          \E a \in SnapCounts(n) :
             \E b \in SnapCounts(n - a) :
                positions_13f = SnapRows(<<1>>, <<1, 0>>, n, a, b) \cup other
    /\ snap_args \in [manager_cik : {<<1>>}, report_period : {<<>>, <<<<1, 0>>>>}, top_n : {top_n}]
    /\ snapshot = None
    /\ snap_pc = "call"

\* get_latest_period_for_manager: MAX(report_period) of the manager's rows, or None
\* (written <<>>)
get_latest_period_for_manager(tbl, cik) ==
    LET periods == {r.report_period : r \in {x \in tbl : x.manager_cik = cik}} \ {<<>>}
    IN  IF periods = {} THEN <<>>
        ELSE CHOOSE q \in periods : \A o \in periods \ {q} : LexLess(o, q)

\* the period the snapshot is built for, lines 58-60
SnapPeriod ==
    IF snap_args.report_period = <<>>
    THEN get_latest_period_for_manager(positions_13f, snap_args.manager_cik)
    ELSE snap_args.report_period[1]

\* ORDER BY value_usd DESC: r1 sorts strictly before r2 (a NULL sorts after every number)
ValueBefore(r1, r2) ==
    /\ r1.value_usd # NULL
    /\ r2.value_usd = NULL \/ r1.value_usd[1] > r2.value_usd[1]

\* the rows of the quarter in the order of a scan by ascending or by descending cusip:
\* the order in which rows of equal value_usd come out is not fixed by the query
SnapScans(rows) ==
    LET n == Cardinality(rows)
        below == [r \in rows |-> Cardinality({x \in rows : x.cusip < r.cusip})]
        up == [k \in 1..n |-> CHOOSE r \in rows : below[r] = k - 1]
    IN  {up, [k \in 1..n |-> up[n + 1 - k]]}

\* ORDER BY value_usd DESC LIMIT ? applied to a scan
OrderByValueLimit(scan, limit) ==
    LET n == Len(scan)
        place == [j \in 1..n |->
                     Cardinality({h \in 1..n : ValueBefore(scan[h], scan[j])})
                     + Cardinality({h \in 1..(j - 1) :
                                       /\ ~ValueBefore(scan[h], scan[j])
                                       /\ ~ValueBefore(scan[j], scan[h])}) + 1]
        sorted == [k \in 1..n |-> scan[CHOOSE j \in 1..n : place[j] = k]]
    IN  IF n <= limit THEN sorted ELSE SubSeq(sorted, 1, limit)

\* a plausible slip: the row of index 10 is still counted
InTop10_through_10(idx) == idx <= Top10

\* `if idx < 10`, idx counting from 0
InTop10(idx) == idx < Top10

\* lines 118-122: the weights of the rows of index below 10, added up
RECURSIVE running_sum_top10(_, _, _)
running_sum_top10(rows, total_value_usd, upto) ==
    IF upto = 0 THEN Rat(0, 1)
    ELSE LET value == OrZero(rows[upto].value_usd)
             weight_pct == IF total_value_usd > 0 THEN Rat(value * 100, total_value_usd)
                           ELSE Rat(0, 1)
             before_it == running_sum_top10(rows, total_value_usd, upto - 1)
         IN  IF InTop10(upto - 1) THEN RatAdd(before_it, weight_pct) ELSE before_it

\* lines 86-149: the snapshot of one quarter (the fields taken from the filings table
\* are left out)
build_manager_snapshot(tbl, manager_cik, report_period, limit, scan) ==
    LET all_rows == QuarterRows(tbl, manager_cik, report_period)
        total_value_usd == SumValues(all_rows)
        num_positions == Cardinality(all_rows)
        rows == OrderByValueLimit(scan, limit)
    IN  [manager |-> [cik |-> manager_cik,
                      latest_period |-> report_period,
                      total_value_usd |-> total_value_usd,
                      num_positions |-> num_positions,
                      top10_concentration_pct |->
                          running_sum_top10(rows, total_value_usd, Len(rows))],
         holdings |-> [idx \in DOMAIN rows |->
                          LET value == OrZero(rows[idx].value_usd)
                          IN  [rank |-> idx,
                               issuer |-> rows[idx].issuer,
                               cusip |-> rows[idx].cusip,
                               shares |-> OrZero(rows[idx].shares),
                               value_usd |-> value,
                               weight_pct |-> IF total_value_usd > 0
                                              THEN Rat(value * 100, total_value_usd)
                                              ELSE Rat(0, 1)]]]

\* lines 61-66: no period was given and the manager has no rows
SnapRaises ==
    /\ snap_pc = "call"
    /\ SnapPeriod = <<>>
    /\ snap_pc' = "raised"
    /\ UNCHANGED <<tableVars, buildVars, rowVars, pairVars, parseVars, readVars, snap_args, snapshot, svcVars>>

SnapBuild ==
    /\ snap_pc = "call"
    /\ SnapPeriod # <<>>
    /\ \E scan \in SnapScans(QuarterRows(positions_13f, snap_args.manager_cik, SnapPeriod)) :
          snapshot' = build_manager_snapshot(positions_13f, snap_args.manager_cik, SnapPeriod,
                                             snap_args.top_n, scan)
    /\ snap_pc' = "returned"
    /\ UNCHANGED <<tableVars, buildVars, rowVars, pairVars, parseVars, readVars, snap_args, svcVars>>

NextSnap ==
    \/ SnapBuild
    \/ SnapRaises

SpecSnap == InitSnap /\ [][NextSnap]_vars

\* the stored rows of the snapshot's (manager, period)
SnapStored ==
    {r \in positions_13f : /\ r.manager_cik = snapshot.manager.cik
                           /\ r.report_period = snapshot.manager.latest_period}

ValueOf(r) == IF r.value_usd = NULL THEN 0 ELSE r.value_usd[1]

\* the sum of the k largest market values of a set of rows (of all when there are fewer)
RECURSIVE LargestSum(_, _)
LargestSum(rows, k) ==
    IF k = 0 \/ rows = {} THEN 0
    ELSE LET top == CHOOSE r \in rows : \A x \in rows : ValueOf(x) <= ValueOf(r)
         IN  ValueOf(top) + LargestSum(rows \ {top}, k - 1)

RECURSIVE AllSum(_)
AllSum(rows) ==
    IF rows = {} THEN 0
    ELSE LET r == CHOOSE x \in rows : TRUE
         IN  ValueOf(r) + AllSum(rows \ {r})

\* C16: top10_concentration_pct is the sum of the weights of the 10 positions with the
\* largest market value of the period (of all positions when there are fewer than 10),
\* each weight being the value over the total of all positions of the period, also when
\* more positions are stored than holdings are returned.
C16_Top10Concentration ==
    snap_pc = "returned" =>
        LET total == AllSum(SnapStored)
            top == LargestSum(SnapStored, 10)
        IN  IF total > 0
            THEN /\ snapshot.manager.top10_concentration_pct[2] > 0
                 /\ snapshot.manager.top10_concentration_pct[1] * total
                       = top * 100 * snapshot.manager.top10_concentration_pct[2]
            ELSE snapshot.manager.top10_concentration_pct = <<0, 1>>

C16_Witness ==
    /\ snap_pc = "returned"
    /\ Cardinality(SnapStored) > top_n
    /\ Len(snapshot.holdings) = top_n
    /\ snapshot.manager.total_value_usd = 2 * Cardinality(SnapStored) - 1
    /\ snapshot.manager.top10_concentration_pct[1] * snapshot.manager.total_value_usd
          = 2000 * snapshot.manager.top10_concentration_pct[2]
    /\ SnapOtherRows \subseteq positions_13f

(***************************************************************************)
(* edgar_all_forms_scraper.http_post_json: the retry loop                  *)
(***************************************************************************)
MaxRetries == 2

\* --max-retries is type=int: argparse accepts a negative count
RetryCounts == (0 - 2)..MaxRetries

\* the exception classes the two except clauses tell apart (lines 120, 129)
ErrorKinds == {"HTTPError", "Exception"}

HttpTerminal == {"returned_empty", "returned_response", "raised"}

InitHttp ==
    /\ BuildIdle
    /\ RowOff
    /\ PairOff
    /\ ReadOff
    /\ SnapOff
    /\ last_filing = None
    /\ \E r \in RetryCounts, off \in BOOLEAN, https \in BOOLEAN, req \in BOOLEAN :
          http_args = [retries |-> r, offline |-> off, https_supported |-> https,
                       require_network |-> req]
    /\ attempt = 0
    /\ last_err = <<>>
    /\ http_attempts = 0
    /\ http_pc = "call"
    /\ IngestOff
    /\ QueueOff
    /\ SubOff
    /\ ScrapeOff
    /\ OrderOff

\* range(retries + 1)
AttemptRange_one_more(retries) == 0..(retries + 1)
AttemptRange(retries) == 0..retries

\* lines 93-94
HttpOffline ==
    /\ http_pc = "call"
    /\ http_args.offline
    /\ http_pc' = "returned_empty"
    /\ UNCHANGED <<httpRest, http_args, attempt, last_err, http_attempts>>

\* lines 96-98
HttpUnsupportedRaises ==
    /\ http_pc = "call"
    /\ ~http_args.offline
    /\ ~http_args.https_supported
    /\ http_args.require_network
    /\ http_pc' = "raised"
    /\ UNCHANGED <<httpRest, http_args, attempt, last_err, http_attempts>>

\* lines 96-99
HttpUnsupportedEmpty ==
    /\ http_pc = "call"
    /\ ~http_args.offline
    /\ ~http_args.https_supported
    /\ ~http_args.require_network
    /\ http_pc' = "returned_empty"
    /\ UNCHANGED <<httpRest, http_args, attempt, last_err, http_attempts>>

\* lines 101-105: the loop is entered with last_err = <<>>
HttpEnterLoop ==
    /\ http_pc = "call"
    /\ ~http_args.offline
    /\ http_args.https_supported
    /\ http_pc' = "loop"
    /\ attempt' = 0
    /\ last_err' = <<>>
    /\ UNCHANGED <<httpRest, http_args, http_attempts>>

\* lines 106-118: the request is opened, read and decoded, and the function returns
AttemptSucceeds ==
    /\ http_pc = "loop"
    /\ attempt \in AttemptRange(http_args.retries)
    /\ http_attempts' = http_attempts + 1
    /\ http_pc' = "returned_response"
    /\ UNCHANGED <<httpRest, http_args, attempt, last_err>>

\* lines 106-131: opening, reading or decoding raises; the error is kept and the loop goes on
AttemptFails ==
    /\ http_pc = "loop"
    /\ attempt \in AttemptRange(http_args.retries)
    /\ \E e \in ErrorKinds : last_err' = <<e>>
    /\ http_attempts' = http_attempts + 1
    /\ attempt' = attempt + 1
    /\ UNCHANGED <<httpRest, http_args, http_pc>>

\* line 133: the range is exhausted
HttpGivesUp ==
    /\ http_pc = "loop"
    /\ attempt \notin AttemptRange(http_args.retries)
    /\ http_pc' = "raised"
    /\ UNCHANGED <<httpRest, http_args, attempt, last_err, http_attempts>>

NextHttp ==
    \/ HttpOffline
    \/ HttpUnsupportedRaises
    \/ HttpUnsupportedEmpty
    \/ HttpEnterLoop
    \/ AttemptSucceeds
    \/ AttemptFails
    \/ HttpGivesUp

SpecHttp == InitHttp /\ [][NextHttp]_vars

NetworkEnabled == ~http_args.offline /\ http_args.https_supported

AttemptLimit == IF http_args.retries + 1 > 0 THEN http_args.retries + 1 ELSE 0

MaxCsvRows == 2
MaxIngests == 2

Whitespace == {" "}

\* str.strip()
RECURSIVE LStrip(_)
LStrip(s) == IF s # <<>> /\ Head(s) \in Whitespace THEN LStrip(Tail(s)) ELSE s

RECURSIVE RStrip(_)
RStrip(s) ==
    IF s # <<>> /\ s[Len(s)] \in Whitespace THEN RStrip(SubSeq(s, 1, Len(s) - 1)) ELSE s

Strip(s) == LStrip(RStrip(s))

\* acc.replace("-", "")
RemoveDashes(s) == SelectSeq(s, LAMBDA ch : ch # "-")

\* lines 88-96; RE_ACC's group(0) is the whole string it matched, so both branches
\* of line 96 return the stripped string
normalize_accession_nodash(acc) ==
    IF acc = <<>> THEN <<>>
    ELSE LET stripped == Strip(acc)
         IN  IF "-" \in Range(stripped) THEN RemoveDashes(stripped) ELSE stripped

\* lines 98-109; sha1 is taken as collision-free and the "|"-joined key as the tuple of
\* its four fields (no field of the model holds a "|")
build_uniq(row) ==
    LET acc == normalize_accession_nodash(row.accessionNo)
    IN  IF acc # <<>>
        THEN <<"ACC", acc>>
        ELSE <<"ROW", <<row.company, row.formType, row.filedAt, row.filingUrl>>>>

CoreCols == {"cik", "company", "formType", "filedAt", "reportPeriod",
             "accessionNo", "filingUrl", "size"}

\* lines 123-143: the core columns, filedAt falling back to dateFiled, and the uniq key
map_row(raw) ==
    LET out == [k \in CoreCols |->
                  IF k = "filedAt" /\ raw.filedAt = <<>> THEN raw.dateFiled ELSE raw[k]]
    IN  [k \in CoreCols \cup {"uniq"} |-> IF k = "uniq" THEN build_uniq(out) ELSE out[k]]

\* the table row without its id
Mapped(r) == [k \in CoreCols \cup {"uniq"} |-> r[k]]

FilingsRow(id, mapped) ==
    [k \in CoreCols \cup {"uniq", "id"} |-> IF k = "id" THEN id ELSE mapped[k]]

\* INSERT ... ON CONFLICT(uniq) DO NOTHING
UpsertRow_do_nothing(tbl, seq, mapped) ==
    IF \E r \in tbl : r.uniq = mapped.uniq
    THEN tbl
    ELSE tbl \cup {FilingsRow(seq + 1, mapped)}

\* lines 153-157, one row: INSERT ... ON CONFLICT(uniq) DO UPDATE SET every other column;
\* seq is sqlite_sequence before the statement; the row in conflict keeps its id
UpsertRow(tbl, seq, mapped) ==
    IF \E r \in tbl : r.uniq = mapped.uniq
    THEN {IF r.uniq = mapped.uniq THEN FilingsRow(r.id, mapped) ELSE r : r \in tbl}
    ELSE tbl \cup {FilingsRow(seq + 1, mapped)}

\* lines 145-165: executemany runs the statement once per row, in order; AUTOINCREMENT
\* draws an id for every statement, also for one that ends as an update
RECURSIVE upsert_rows(_, _, _)
upsert_rows(tbl, seq, mapped_rows) ==
    IF mapped_rows = <<>> THEN tbl
    ELSE upsert_rows(UpsertRow(tbl, seq, Head(mapped_rows)), seq + 1, Tail(mapped_rows))

\* the mapped row ingested last for every uniq key
RECURSIVE Remember(_, _)
Remember(known, mapped_rows) ==
    IF mapped_rows = <<>> THEN known
    ELSE Remember({m \in known : m.uniq # Head(mapped_rows).uniq} \cup {Head(mapped_rows)},
                  Tail(mapped_rows))

RawRow(acc, company, filedAt, dateFiled, size) ==
    [accessionNo |-> acc, cik |-> <<1>>, company |-> company, formType |-> "13F-HR",
     filedAt |-> filedAt, dateFiled |-> dateFiled, reportPeriod |-> <<1>>,
     filingUrl |-> "u", size |-> size]

\* rows of a CSV: two spellings of one accession, and two rows without accession that
\* agree on the four key fields (one of them through dateFiled)
CsvRows ==
    {RawRow(<<"1", "-", "2">>, "Acme", <<9>>, <<>>, "1"),
     RawRow(<<" ", "1", "2">>, "Acme", <<9>>, <<>>, "2"),
     RawRow(<<" ">>, "Acme", <<9>>, <<>>, "1"),
     RawRow(<<>>, "Acme", <<>>, <<9>>, "2")}

InitIngest ==
    /\ BuildIdle
    /\ RowOff
    /\ PairOff
    /\ ReadOff
    /\ SnapOff
    /\ last_filing = None
    /\ HttpOff
    /\ IngestOff
    /\ QueueOff
    /\ SubOff
    /\ ScrapeOff
    /\ OrderOff

\* lines 167-190 for one CSV file (BATCH is larger than any file of the model)
IngestCsv ==
    /\ ingest_log.count < MaxIngests
    /\ \E csv \in SeqsUpTo(CsvRows, MaxCsvRows) :
          LET mapped_rows == [k \in DOMAIN csv |-> map_row(csv[k])]
          IN  /\ filings_table' = upsert_rows(filings_table, filings_seq, mapped_rows)
              /\ filings_seq' = filings_seq + Len(csv)
              /\ last_by_uniq' = Remember(last_by_uniq, mapped_rows)
              /\ ingest_log' = [count |-> ingest_log.count + 1, csv |-> csv,
                                same |-> ingest_log.count > 0 /\ csv = ingest_log.csv,
                                before |-> filings_table]
    /\ UNCHANGED ingestRest

NextIngest ==
    \/ IngestCsv

SpecIngest == InitIngest /\ [][NextIngest]_vars

\* C23: after any sequence of ingests the filings table has at most one row per uniq key
\* (and per id), the rows are exactly the uniq keys ingested so far, each holding the
\* values of the row ingested last for its key, and an ingest of the CSV ingested just
\* before it leaves the rows of the table, ids included, as they were.
C23_IdempotentUpsert ==
    /\ \A r1, r2 \in filings_table : (r1.uniq = r2.uniq \/ r1.id = r2.id) => r1 = r2
    /\ {Mapped(r) : r \in filings_table} = last_by_uniq
    /\ \A r \in filings_table : r.id \in 1..filings_seq
    /\ ingest_log.same => filings_table = ingest_log.before

C23_Witness ==
    /\ ingest_log.same
    /\ Len(ingest_log.csv) = 2
    /\ ingest_log.csv[1].accessionNo = <<"1", "-", "2">>
    /\ ingest_log.csv[2].accessionNo = <<" ", "1", "2">>
    /\ Cardinality(filings_table) = 1
    /\ \E r \in filings_table : r.size = "2" /\ r.id = 1 /\ r.uniq = <<"ACC", <<"1", "2">>>>
    /\ filings_seq = 4

(***************************************************************************)
(* parse_13f.main: one run takes one item of parse_queue.  The queue is    *)
(* the one reset_13f_parse_queue.py fills from filings; the filings table  *)
(* can be emptied under it by rebuild_filings_table.py.                    *)
(***************************************************************************)
Types13F == {"13F-HR", "13F-HR/A"}

QueueRawRow(acc, formType, reportPeriod) ==
    [RawRow(acc, "Acme", <<9>>, <<>>, "1") EXCEPT !.formType = formType,
                                                  !.reportPeriod = reportPeriod]

\* the filings ingested before the queue is filled: a 13F with its report period, an
\* amendment whose reportPeriod is empty, and a filing that is no 13F
QueueCsv ==
    <<QueueRawRow(<<"1">>, "13F-HR", <<1>>),
      QueueRawRow(<<"2">>, "13F-HR/A", <<>>),
      QueueRawRow(<<"3">>, "10-K", <<1>>)>>

QueueMapped == [k \in DOMAIN QueueCsv |-> map_row(QueueCsv[k])]

EnqueueTimes == {1, 2}

\* the exception texts str(e) of a failed parse: no XML in the filing, a failed fetch
ErrTexts == {"No <informationTable> XML found", "HTTP Error 404"}

InitQueue ==
    /\ BuildIdle
    /\ RowOff
    /\ PairOff
    /\ ReadOff
    /\ SnapOff
    /\ last_filing = None
    /\ HttpOff
    /\ filings_table = upsert_rows({}, 0, QueueMapped)
    /\ filings_seq = Len(QueueCsv)
    /\ last_by_uniq = Remember({}, QueueMapped)
    /\ ingest_log = [count |-> 1, csv |-> QueueCsv, same |-> FALSE, before |-> {}]
    /\ \E at \in [filings_table -> EnqueueTimes \cup {0}] :
          parse_queue = {[accessionNo |-> f.accessionNo, formType |-> f.formType,
                          enqueued_at |-> at[f]] : f \in {g \in filings_table : at[g] > 0}}
    /\ filings_parsed = {}
    /\ queue_log = NoQueueRun
    /\ SubOff
    /\ ScrapeOff
    /\ OrderOff

\* WHERE formType IN ('13F-HR', '13F-HR/A')
Pending(queue) == {it \in queue : it.formType \in Types13F}

\* ORDER BY enqueued_at LIMIT 1: any of the items with the least enqueued_at
Oldest(queue) ==
    {it \in Pending(queue) : \A o \in Pending(queue) : it.enqueued_at <= o.enqueued_at}

\* SELECT cik, reportPeriod, filedAt FROM filings WHERE accessionNo=?
FilingsOf(tbl, acc) == {f \in tbl : f.accessionNo = acc}

\* lines 190-192
EffectivePeriod(f) == IF f.reportPeriod = <<>> THEN f.filedAt ELSE f.reportPeriod

\* INSERT OR REPLACE INTO filings_parsed under PRIMARY KEY accessionNo
RecordParsed(tbl, acc, formType, succeeded, err) ==
    {r \in tbl : r.accessionNo # acc}
        \cup {[accessionNo |-> acc, formType |-> formType, succeeded |-> succeeded, err |-> err]}

\* DELETE FROM parse_queue WHERE accessionNo=?
Dequeue(queue, acc) == {it \in queue : it.accessionNo # acc}

QueueLog(outcome, item) ==
    [outcome |-> outcome, item |-> item, queue_before |-> parse_queue,
     positions_before |-> positions_13f]

\* lines 167-181: the SELECT finds no 13F item
RunNoPending ==
    /\ Pending(parse_queue) = {}
    /\ queue_log' = QueueLog("none", <<>>)
    /\ UNCHANGED <<queueCore, filings_table, filings_seq,
                   last_by_uniq, ingest_log, parse_queue, filings_parsed>>

\* lines 185-188: fetchone() returns None for an accession without a filings row and
\* unpacking it raises TypeError before the try block: nothing is written
RunCrashes ==
    /\ \E it \in Oldest(parse_queue) :
          /\ FilingsOf(filings_table, it.accessionNo) = {}
          /\ queue_log' = QueueLog("crashed", <<it>>)
    /\ UNCHANGED <<queueCore, filings_table, filings_seq,
                   last_by_uniq, ingest_log, parse_queue, filings_parsed>>

\* lines 195-199 with parse_and_upsert's transaction (lines 139-160)
RunParses ==
    /\ \E it \in Oldest(parse_queue) :
       \E f \in FilingsOf(filings_table, it.accessionNo) :
       \E rows \in SeqsUpTo(FilingRows, MaxRows) :
          /\ positions_13f' = Upsert(positions_13f, f.cik, EffectivePeriod(f), rows)
          /\ filings_parsed' = RecordParsed(filings_parsed, it.accessionNo, "13F-HR", 1, <<>>)
          /\ parse_queue' = Dequeue(parse_queue, it.accessionNo)
          /\ queue_log' = QueueLog("success", <<it>>)
    /\ filings' = filings + 1
    /\ UNCHANGED <<queueOther, filings_table, filings_seq, last_by_uniq, ingest_log>>

\* lines 200-213: parse_and_upsert raises, before its transaction or inside it (rolled
\* back by "with con")
RunParseFails ==
    /\ \E it \in Oldest(parse_queue) :
       \E f \in FilingsOf(filings_table, it.accessionNo) :
       \E e \in ErrTexts :
          /\ filings_parsed' = RecordParsed(filings_parsed, it.accessionNo, it.formType, 0, <<e>>)
          /\ parse_queue' = Dequeue(parse_queue, it.accessionNo)
          /\ queue_log' = QueueLog("failure", <<it>>)
    /\ UNCHANGED <<queueCore, filings_table, filings_seq,
                   last_by_uniq, ingest_log>>

\* rebuild_filings_table.py: DROP TABLE IF EXISTS filings, CREATE TABLE filings
RebuildFilings ==
    /\ filings_table # {}
    /\ filings_table' = {}
    /\ filings_seq' = 0
    /\ last_by_uniq' = {}
    /\ UNCHANGED <<queueCore, ingest_log, queueVars>>

NextQueue ==
    \/ RunNoPending
    \/ RunCrashes
    \/ RunParses
    \/ RunParseFails
    \/ RebuildFilings

SpecQueue == InitQueue /\ [][NextQueue]_vars

RanOnItem == queue_log.item # <<>>

\* C26: the run made last, if it found a pending 13F item, took one of the oldest and
\* removed it from the queue; after a successful parse filings_parsed holds the accession
\* with succeeded = 1, after a failed one with succeeded = 0 and the error text, and a
\* failed parse left positions_13f as it was.
C26_RunRemovesItem ==
    RanOnItem =>
        LET it == queue_log.item[1]
        IN  /\ it \in Oldest(queue_log.queue_before)
            /\ it \notin parse_queue
            /\ queue_log.outcome = "success" =>
                  \E r \in filings_parsed : /\ r.accessionNo = it.accessionNo
                                            /\ r.succeeded = 1
            /\ queue_log.outcome = "failure" =>
                  /\ \E r \in filings_parsed : /\ r.accessionNo = it.accessionNo
                                               /\ r.succeeded = 0
                                               /\ r.err # <<>>
                                               /\ r.err[1] \in ErrTexts
                  /\ positions_13f = queue_log.positions_before

\* C27: every run that finds a pending 13F item leaves the queue one item shorter, so
\* the item it found is not at the head for the next run.
C27_EveryRunShortensQueue ==
    RanOnItem => Cardinality(parse_queue) = Cardinality(queue_log.queue_before) - 1

(***************************************************************************)
(* manage_subscribers.py: add_or_update_subscriber, set_active and         *)
(* change_tier, each call on its own connection, one after the other.      *)
(* created_at and updated_at are not modelled.                             *)
(***************************************************************************)
MaxCalls == 3

SubscriberKeys == {<<"alice@example.com", <<1>>>>, <<"alice@example.com", <<2>>>>,
                   <<"bob@example.com", <<1>>>>}
ValidTiers == {"nano", "mini", "premium"}
\* the tier argument as typed: any case, or no tier at all
TierArgs == {"nano", "MINI", "premium", "gold"}
ActiveArgs == {0, 1}

\* str.lower() on the tier arguments of the model
Lower(tier) == IF tier = "MINI" THEN "mini" ELSE tier

\* a plausible slip: the lookup also compares the tier
FindSubscriber_same_tier(tbl, email, cik, tier) ==
    {r \in tbl : r.email = email /\ r.cik = cik /\ r.tier = tier}

\* lines 51-58: SELECT id FROM subscribers WHERE email = ? AND cik = ? LIMIT 1 (the tier
\* of the call is no part of the lookup)
FindSubscriber(tbl, email, cik, tier) ==
    {r \in tbl : r.email = email /\ r.cik = cik}

SubLog(op, args, result) ==
    [count |-> sub_log.count + 1, op |-> op, args |-> args, result |-> result,
     raised |-> FALSE, before |-> subscribers]

InitSub ==
    /\ BuildIdle
    /\ RowOff
    /\ PairOff
    /\ ReadOff
    /\ SnapOff
    /\ last_filing = None
    /\ HttpOff
    /\ IngestOff
    /\ QueueOff
    /\ SubOff
    /\ ScrapeOff
    /\ OrderOff

\* lines 42-44 and 130-132: the tier is not one of the three
SubscriberCallRaises ==
    /\ sub_log.count < MaxCalls
    /\ \E op \in {"add", "change_tier"}, tier \in TierArgs :
          /\ Lower(tier) \notin ValidTiers
          /\ sub_log' = [SubLog(op, <<tier>>, <<>>) EXCEPT !.raised = TRUE]
    /\ UNCHANGED <<subRest, subscribers, subscribers_seq>>

\* lines 60-72: a row has the email and the cik; it is updated
UpdateSubscriber ==
    /\ sub_log.count < MaxCalls
    /\ \E key \in SubscriberKeys, tier \in TierArgs, active \in ActiveArgs :
          /\ Lower(tier) \in ValidTiers
          /\ \E row \in FindSubscriber(subscribers, key[1], key[2], Lower(tier)) :
                /\ subscribers' = {IF r.id = row.id
                                   THEN [r EXCEPT !.tier = Lower(tier), !.active = active]
                                   ELSE r : r \in subscribers}
                /\ sub_log' = SubLog("add", <<key[1], key[2], tier, active>>, <<row.id>>)
    /\ UNCHANGED <<subRest, subscribers_seq>>

\* lines 73-82: no row has the email and the cik; one is inserted
InsertSubscriber ==
    /\ sub_log.count < MaxCalls
    /\ \E key \in SubscriberKeys, tier \in TierArgs, active \in ActiveArgs :
          /\ Lower(tier) \in ValidTiers
          /\ FindSubscriber(subscribers, key[1], key[2], Lower(tier)) = {}
          /\ subscribers' = subscribers \cup
                {[id |-> subscribers_seq + 1, email |-> key[1], cik |-> key[2],
                  tier |-> Lower(tier), active |-> active]}
          /\ sub_log' = SubLog("add", <<key[1], key[2], tier, active>>, <<subscribers_seq + 1>>)
    /\ subscribers_seq' = subscribers_seq + 1
    /\ UNCHANGED subRest

\* lines 114-126; an id without a row updates nothing
set_active ==
    /\ sub_log.count < MaxCalls
    /\ \E sub_id \in 1..(subscribers_seq + 1), active \in ActiveArgs :
          /\ subscribers' = {IF r.id = sub_id THEN [r EXCEPT !.active = active] ELSE r
                             : r \in subscribers}
          /\ sub_log' = SubLog("set_active", <<sub_id, active>>, <<>>)
    /\ UNCHANGED <<subRest, subscribers_seq>>

\* lines 129-145
change_tier ==
    /\ sub_log.count < MaxCalls
    /\ \E sub_id \in 1..(subscribers_seq + 1), tier \in TierArgs :
          /\ Lower(tier) \in ValidTiers
          /\ subscribers' = {IF r.id = sub_id THEN [r EXCEPT !.tier = Lower(tier)] ELSE r
                             : r \in subscribers}
          /\ sub_log' = SubLog("change_tier", <<sub_id, tier>>, <<>>)
    /\ UNCHANGED <<subRest, subscribers_seq>>

NextSub ==
    \/ SubscriberCallRaises
    \/ UpdateSubscriber
    \/ InsertSubscriber
    \/ set_active
    \/ change_tier

SpecSub == InitSub /\ [][NextSub]_vars

\* the rows the table held under an (email, cik) before the call made last
HadKey(email, cik) == {r \in sub_log.before : r.email = email /\ r.cik = cik}

\* C24: after any sequence of calls the table has at most one row per (email, cik) (and
\* per id); an add that returned, for an (email, cik) that had a row, returned that row's
\* id, inserted nothing, left every other row as it was and left the row with the tier
\* (in lower case) and the active flag of the call; an add for an (email, cik) without a
\* row inserted one row under a new id.
C24_EmailCikIsKey ==
    /\ \A r1, r2 \in subscribers :
          ((r1.email = r2.email /\ r1.cik = r2.cik) \/ r1.id = r2.id) => r1 = r2
    /\ (sub_log.op = "add" /\ ~sub_log.raised) =>
          LET email == sub_log.args[1]
              cik == sub_log.args[2]
              tier == Lower(sub_log.args[3])
              active == sub_log.args[4]
              sub_id == sub_log.result[1]
              row == [id |-> sub_id, email |-> email, cik |-> cik, tier |-> tier,
                      active |-> active]
          IN  /\ row \in subscribers
              /\ {r \in subscribers : r.id # sub_id} = {r \in sub_log.before : r.id # sub_id}
              /\ IF HadKey(email, cik) # {}
                 THEN /\ \E r \in HadKey(email, cik) : r.id = sub_id
                      /\ Cardinality(subscribers) = Cardinality(sub_log.before)
                 ELSE /\ \A r \in sub_log.before : r.id # sub_id
                      /\ Cardinality(subscribers) = Cardinality(sub_log.before) + 1

C24_Witness ==
    /\ sub_log.count = 3
    /\ sub_log.op = "add"
    /\ sub_log.args = <<"alice@example.com", <<1>>, "MINI", 1>>
    /\ sub_log.result = <<1>>
    /\ subscribers = {[id |-> 1, email |-> "alice@example.com", cik |-> <<1>>,
                       tier |-> "mini", active |-> 1]}
    /\ sub_log.before = {[id |-> 1, email |-> "alice@example.com", cik |-> <<1>>,
                          tier |-> "nano", active |-> 0]}

(***************************************************************************)
(* edgar_all_forms_scraper.main: the EFTS paging loop and its checkpoint.  *)
(* One checkpoint file serves every slice of every run with the same       *)
(* --out-prefix; the output files are append-only.                         *)
(***************************************************************************)
MaxScrapeRuns == 2
MaxHits == 3
MaxPage == 2

\* PYTHONHASHSEED: the seed of a process; two runs may or may not share it
HashSeeds == {1, 2}

\* the slices of one run: --slice-years with one year or both
SliceLists == {<<"2024">>, <<"2025">>, <<"2024", "2025">>}

\* lines 257-259: str(abs(hash(s))) of the query's JSON text.  The built-in hash of a
\* str depends on the process's seed; it is taken as collision-free, so the value
\* stands for the pair of the query and the seed
hash_query(query, seed) == <<query, seed>>

\* Checkpoint(query_hash, from_index, seen) as written to the file (lines 434-435)
CheckpointFile(query_hash, from_index, seen) ==
    [kind |-> "ok", query_hash |-> query_hash, from_index |-> from_index, seen |-> seen]

\* a plausible slip: the checkpoint found is used whatever its query_hash
LoadCheckpoint_any_query(file, query_hash) ==
    IF file.kind = "ok"
    THEN [from_index |-> file.from_index, seen |-> file.seen]
    ELSE [from_index |-> 0, seen |-> 0]

\* lines 411-418: a fresh Checkpoint unless the file exists, can be read and has the
\* query's hash
LoadCheckpoint(file, query_hash) ==
    IF file.kind = "ok" /\ file.query_hash = query_hash
    THEN [from_index |-> file.from_index, seen |-> file.seen]
    ELSE [from_index |-> 0, seen |-> 0]

InitScrape ==
    /\ BuildIdle
    /\ RowOff
    /\ PairOff
    /\ ReadOff
    /\ SnapOff
    /\ last_filing = None
    /\ HttpOff
    /\ IngestOff
    /\ QueueOff
    /\ SubOff
    /\ ScrapeOff
    /\ OrderOff

\* a run of the script starts: lines 382-407
ScrapeStart ==
    /\ scrape_pc \in {"off", "done", "crashed"}
    /\ scrape_runs < MaxScrapeRuns
    /\ scrape_runs' = scrape_runs + 1
    /\ \E seed \in HashSeeds : hash_seed' = seed
    /\ \E slices \in SliceLists : slices_left' = slices
    /\ scrape_pc' = "slice"
    /\ qhash' = <<>>
    /\ from_idx' = 0
    /\ total_written' = 0
    /\ page_hits' = 0
    /\ slice_start' = NoSliceStart
    /\ UNCHANGED <<scrapeRest, ckpt_file, outputs>>

\* lines 409-421: the next slice starts from the checkpoint it finds
SliceStart ==
    /\ scrape_pc = "slice"
    /\ slices_left # <<>>
    /\ LET h == hash_query(Head(slices_left), hash_seed)
           ckpt == LoadCheckpoint(ckpt_file, h)
       IN  /\ qhash' = h
           /\ from_idx' = ckpt.from_index
           /\ total_written' = ckpt.seen
           /\ slice_start' = [found |-> ckpt_file, from_idx |-> ckpt.from_index,
                              total_written |-> ckpt.seen]
    /\ page_hits' = 0
    /\ scrape_pc' = "page"
    /\ UNCHANGED <<scrapeRest, ckpt_file, outputs, hash_seed, slices_left, scrape_runs>>

\* lines 423-428: the search returns a page of hits
FetchPage ==
    /\ scrape_pc = "page"
    /\ \E n \in 1..MaxPage :
          /\ from_idx + n <= MaxHits
          /\ page_hits' = n
    /\ scrape_pc' = "fetched"
    /\ UNCHANGED <<scrapeRest, ckpt_file, outputs, hash_seed, slices_left, qhash, from_idx,
                   total_written, scrape_runs, slice_start>>

\* lines 426-427 and 437: no hits, the slice is done
FetchEmpty ==
    /\ scrape_pc = "page"
    /\ slices_left' = Tail(slices_left)
    /\ page_hits' = 0
    /\ scrape_pc' = "slice"
    /\ UNCHANGED <<scrapeRest, ckpt_file, outputs, hash_seed, qhash, from_idx, total_written,
                   scrape_runs, slice_start>>

\* lines 428-429: the page's rows are appended to the JSONL and CSV files
WritePage ==
    /\ scrape_pc = "fetched"
    /\ outputs' = [outputs EXCEPT ![Head(slices_left)] = @ + page_hits]
    /\ scrape_pc' = "written"
    /\ UNCHANGED <<scrapeRest, ckpt_file, hash_seed, slices_left, qhash, from_idx,
                   total_written, page_hits, scrape_runs, slice_start>>

\* lines 431-435: the counters advance and the checkpoint file is rewritten
WriteCheckpoint ==
    /\ scrape_pc = "written"
    /\ from_idx' = from_idx + page_hits
    /\ total_written' = total_written + page_hits
    /\ ckpt_file' = CheckpointFile(qhash, from_idx + page_hits, total_written + page_hits)
    /\ scrape_pc' = "page"
    /\ UNCHANGED <<scrapeRest, outputs, hash_seed, slices_left, qhash, page_hits, scrape_runs,
                   slice_start>>

\* http_post_json raises, write_outputs raises, or the process is stopped
ScrapeStops ==
    /\ scrape_pc \in {"page", "fetched", "written"}
    /\ scrape_pc' = "crashed"
    /\ UNCHANGED <<scrapeRest, ckpt_file, outputs, hash_seed, slices_left, qhash, from_idx,
                   total_written, page_hits, scrape_runs, slice_start>>

\* the process is stopped inside lines 434-435: open(..., "w") has truncated the file
ScrapeStopsInCheckpoint ==
    /\ scrape_pc = "written"
    /\ ckpt_file' = [kind |-> "unreadable"]
    /\ scrape_pc' = "crashed"
    /\ UNCHANGED <<scrapeRest, outputs, hash_seed, slices_left, qhash, from_idx,
                   total_written, page_hits, scrape_runs, slice_start>>

\* lines 439-441: every slice is done
ScrapeFinish ==
    /\ scrape_pc = "slice"
    /\ slices_left = <<>>
    /\ scrape_pc' = "done"
    /\ UNCHANGED <<scrapeRest, ckpt_file, outputs, hash_seed, slices_left, qhash, from_idx,
                   total_written, page_hits, scrape_runs, slice_start>>

NextScrape ==
    \/ ScrapeStart
    \/ SliceStart
    \/ FetchPage
    \/ FetchEmpty
    \/ WritePage
    \/ WriteCheckpoint
    \/ ScrapeStops
    \/ ScrapeStopsInCheckpoint
    \/ ScrapeFinish

SpecScrape == InitScrape /\ [][NextScrape]_vars

InSlice == scrape_pc \in {"page", "fetched", "written"}

\* C28: at every point the from_index of the checkpoint file is at most the number of
\* hits written to the outputs for the checkpoint's query, and so is the from_idx of the
\* running loop for its query; the file holds the loop's counters exactly when the loop
\* is between pages after a page of this slice; a slice that found a readable checkpoint
\* with the hash of its query started at the stored from_index and seen count, and any
\* other slice started at 0 and 0.
C28_CheckpointAfterWrite ==
    /\ ckpt_file.kind = "ok" => ckpt_file.from_index <= outputs[ckpt_file.query_hash[1]]
    /\ InSlice =>
          /\ from_idx <= outputs[Head(slices_left)]
          /\ IF slice_start.found.kind = "ok" /\ slice_start.found.query_hash = qhash
             THEN /\ slice_start.from_idx = slice_start.found.from_index
                  /\ slice_start.total_written = slice_start.found.seen
             ELSE /\ slice_start.from_idx = 0
                  /\ slice_start.total_written = 0
    /\ (scrape_pc = "written" /\ ckpt_file.kind = "ok" /\ ckpt_file.query_hash = qhash) =>
          ckpt_file.from_index + page_hits <= outputs[Head(slices_left)]
    /\ (scrape_pc = "page" /\ from_idx > slice_start.from_idx) =>
          ckpt_file = CheckpointFile(qhash, from_idx, total_written)

C28_Witness ==
    /\ scrape_runs = 2
    /\ scrape_pc = "page"
    /\ slice_start.found = CheckpointFile(<<"2024", hash_seed>>, 2, 2)
    /\ slice_start.from_idx = 2
    /\ ckpt_file = CheckpointFile(<<"2024", hash_seed>>, 3, 3)
    /\ outputs["2024"] = 3

(***************************************************************************)
(* The pairs of build_positions_delta.main processed in any order and      *)
(* interleaved: an iteration of the inner loop is split into its reads     *)
(* (lines 167-177) and its insert and commit (lines 179-195), and any pair *)
(* not yet taken may be taken next.  positions_13f is not written to, and  *)
(* positions_13f_delta starts empty, as after lines 140-141.               *)
(***************************************************************************)
\* what a quarter of the model stores for a cusip, besides nothing
OrderAAA == {<<<<1>>, <<1>>>>, <<<<2>>, <<3>>>>}
OrderBBB == {<<<<1>>, <<1>>>>}

OrderQuarter(m, p, aaa, bbb) ==
    {[manager_cik |-> m, report_period |-> p, cusip |-> "AAA", issuer |-> "Acme",
      shares |-> x[1], value_usd |-> x[2]] : x \in aaa}
    \cup {[manager_cik |-> m, report_period |-> p, cusip |-> "BBB", issuer |-> "Apex",
           shares |-> x[1], value_usd |-> x[2]] : x \in bbb}

\* the contents of one (manager, period): no row, or one row for each cusip it holds
OrderContents(m, p) ==
    {OrderQuarter(m, p, aaa, bbb) :
        aaa \in {{}} \cup {{x} : x \in OrderAAA}, bbb \in {{}} \cup {{x} : x \in OrderBBB}}

InitAnyOrder ==
    /\ BuildLocalsIdle
    /\ RowOff
    /\ PairOff
    /\ ReadOff
    /\ SnapOff
    /\ last_filing = None
    /\ HttpOff
    /\ IngestOff
    /\ QueueOff
    /\ SubOff
    /\ ScrapeOff
    /\ filings = 0
    /\ positions_13f_delta = EmptyBag
    /\ \E q1 \in OrderContents(<<1>>, <<1>>), q2 \in OrderContents(<<1>>, <<1, 0>>),
          q3 \in OrderContents(<<1>>, <<9>>),
          o1 \in {{}, OrderQuarter(<<2>>, <<1>>, {}, OrderBBB)},
          o2 \in {{}, OrderQuarter(<<2>>, <<9>>, OrderAAA \ {<<<<1>>, <<1>>>>}, OrderBBB)} :
          positions_13f = q1 \cup q2 \cup q3 \cup o1 \cup o2
    /\ in_flight = {}
    /\ inserted = <<>>

\* a plausible slip: INSERT OR REPLACE under a key (cik, ticker), so that a pair's row
\* replaces the row another quarter wrote for the security
RECURSIVE InsertRows_replace_ticker(_, _)
InsertRows_replace_ticker(tbl, rows) ==
    IF rows = <<>> THEN tbl
    ELSE LET row == Head(rows)
             kept == {r \in BagToSet(tbl) : ~(r.cik = row.cik /\ r.ticker = row.ticker)}
         IN  InsertRows_replace_ticker([r \in kept |-> tbl[r]] (+) SetToBag({row}), Tail(rows))

\* lines 179-194: executemany of a plain INSERT, one new row for each delta row
InsertRows(tbl, rows) == tbl (+) SeqToBag(rows)

\* lines 164-177 for the pair t = <<manager_cik, prev_rp, curr_rp>>, the rows in the
\* order the set of cusips is iterated in
PairSeqs(tbl, t) ==
    LET prev_positions == fetch_quarter_positions(tbl, t[1], t[2])
        curr_positions == fetch_quarter_positions(tbl, t[1], t[3])
    IN  {[k \in DOMAIN order |->
             compute_delta_row(t[1], t[3], order[k], Get(prev_positions, order[k]),
                               Get(curr_positions, order[k]))] :
            order \in Orders(all_cusips(prev_positions, curr_positions))}

\* the reads of an iteration, for any pair not taken yet
ComputePair ==
    /\ \E t \in AdjacentPairs \ (Range(inserted) \cup {f.pair : f \in in_flight}) :
       \E rows \in PairSeqs(positions_13f, t) :
          in_flight' = in_flight \cup {[pair |-> t, rows |-> rows]}
    /\ UNCHANGED <<orderRest, positions_13f, positions_13f_delta, inserted>>

\* the insert and the commit of an iteration, for any pair whose rows are computed
InsertPair ==
    /\ \E f \in in_flight :
          /\ positions_13f_delta' = InsertRows(positions_13f_delta, f.rows)
          /\ in_flight' = in_flight \ {f}
          /\ inserted' = Append(inserted, f.pair)
    /\ UNCHANGED <<orderRest, positions_13f>>

NextAnyOrder ==
    \/ ComputePair
    \/ InsertPair

SpecAnyOrder == InitAnyOrder /\ [][NextAnyOrder]_vars

\* lines 156-165: the pairs in the order main takes them
RECURSIVE PairsInOrder(_)
PairsInOrder(managers) ==
    IF managers = <<>> THEN <<>>
    ELSE LET m == Head(managers)
             ps == Sorted(StoredPeriods(m))
         IN  [k \in LoopRange(Len(ps)) |-> <<m, ps[k], ps[k + 1]>>]
                \o PairsInOrder(Tail(managers))

\* the delta table after main has taken, in its own order, the pairs of done
RECURSIVE SequentialTable(_, _, _)
SequentialTable(tbl, pairs, done) ==
    IF pairs = <<>> THEN tbl
    ELSE SequentialTable(IF Head(pairs) \in done
                         THEN InsertRows(tbl, CHOOSE rows \in PairSeqs(positions_13f, Head(pairs)) : TRUE)
                         ELSE tbl,
                         Tail(pairs), done)

\* the two snapshots of a pair, and nothing else of positions_13f
OwnSnapshots(t) ==
    QuarterRows(positions_13f, t[1], t[2]) \cup QuarterRows(positions_13f, t[1], t[3])

\* C21: in whatever order and interleaving the pairs are read and inserted, the delta
\* table (its rows, the AUTOINCREMENT id apart) is at every commit the one main reaches
\* by taking the committed pairs one after the other in sorted order, so the final
\* table is the sequential one; and the rows of a committed pair are those computed
\* from its own two snapshots alone.
C21_AnyOrderSameTable ==
    /\ positions_13f_delta
          = SequentialTable(EmptyBag, PairsInOrder(Sorted({r.manager_cik : r \in positions_13f})),
                            Range(inserted))
    /\ \A t \in Range(inserted) :
          RowsOf(positions_13f_delta, t[1], t[3])
             = SetToBag(PairDeltaRows(OwnSnapshots(t), t[1], t[2], t[3]))
    /\ Range(inserted) \subseteq AdjacentPairs
    /\ Cardinality(Range(inserted)) = Len(inserted)

\* all three pairs are committed, the later pair of manager 1 before the earlier one
C21_Witness ==
    /\ Range(inserted) = AdjacentPairs
    /\ in_flight = {}
    /\ Len(inserted) = 3
    /\ inserted[1] = <<<<1>>, <<1, 0>>, <<9>>>>
    /\ inserted[3] = <<<<1>>, <<1>>, <<1, 0>>>>
    /\ \E r \in BagToSet(positions_13f_delta) :
          r.cik = <<1>> /\ r.reportPeriod = <<1, 0>> /\ r.ticker = "AAA"
    /\ \E r \in BagToSet(positions_13f_delta) :
          r.cik = <<1>> /\ r.reportPeriod = <<9>> /\ r.ticker = "AAA"

====
